---- MODULE Spec2Model ----
(***************************************************************************)
(* The DashScope client SDK.                                               *)
(*                                                                         *)
(* Delta merge engine:                                                     *)
(*   dashscope/utils/message_utils.py  merge_single_response               *)
(*                                     merge_multimodal_single_response    *)
(*   dashscope/aigc/multimodal_conversation.py  _merge_multimodal_response *)
(* Realtime translation recognizer (caller, receive worker, send           *)
(* generator and silence timer threads):                                   *)
(*   dashscope/audio/asr/translation_recognizer.py                         *)
(*                                                                         *)
(* Python strings are TLA+ strings ("" is the empty, falsy string), None   *)
(* for a string-valued field is "" unless stated otherwise, Python lists   *)
(* are sequences, and a dict is a record together with the set of keys it  *)
(* holds where the code tests `key in dict`.                               *)
(***************************************************************************)
EXTENDS Integers, Sequences, FiniteSets, TLC

\* Largest number of requested choices (the caller's n ranges over 1..MaxN).
MaxN == 2
\* Number of fragments the server streams in one response.
MaxFragments == 3
\* Number of fragments of a one-choice stream (DeltaSpec).
MaxDeltas == 4
\* The output_tokens a finishing fragment's usage reports (a usage report
\* on an earlier fragment carries 1).
MaxOutputTokens == 2
\* The input_tokens every usage record of one stream carries.
SharedInputTokens == 3
\* Number of events one run of the recognizer takes from its environment:
\* calls of start, send_audio_frame and stop, silence timers whose interval
\* elapses, and server parts whose status is not OK.
MaxEvents == 3

\* Threads of the application that share one synthesizer.
MaxCallers == 2

\* Calls of streaming_call, streaming_complete, async_streaming_complete and
\* streaming_cancel in one run of the synthesizer.
MaxCalls == 4

\* Fragments of a stream that is merged and then replayed.
MaxReplay == 2

\* Binary messages with audio the server sends for one task.
MaxAudio == 2

\* max_size of the object pool.
PoolSize == 2

\* Calls of borrow_synthesizer and return_synthesizer, maintenance rounds,
\* connections that drop and connect times that grow old, in one run.
MaxPoolOps == 5

\* Calls of the application on one session and frames of the server to it.
MaxClientOps == 4

\* Calls on one TranslationRecognizerChat object, parts its workers handle
\* and timer functions that run.
MaxChatOps == 6

VARIABLES
    fn,                 \* which merge function the stream wrapper calls
    n,                  \* the caller's n (number of requested choices)
    accumulated_data,   \* the accumulator dict the wrapper owns
    prev_data,          \* accumulated_data as it was before the last merge call
    fragment,           \* the last fragment as it arrived from the wire
    result,             \* return value of the last merge call
    yielded,            \* responses the wrapper yields for the last call
    filtered_all_sent,  \* the last call returned False at the all-sent check
    sent,               \* history: what the wire carried so far, per choice
    prev_sent,          \* history: sent as it was before the last merge call
    emitted,            \* history: terminal emissions so far, per choice
    fanned,             \* history: choices emitted as their own response
    count               \* fragments processed so far

mergeVars == <<fn, n, accumulated_data, prev_data, fragment, result, yielded,
               filtered_all_sent, sent, prev_sent, emitted, fanned, count>>

(* State of one TranslationRecognizerRealtime object and of the threads    *)
(* that run its code.  A session is what one successful start() begins; the *)
(* receive worker and the send generator of a session carry its number.     *)
VARIABLES
    running,        \* self._running
    stream_data,    \* self._stream_data, the frames queued since the queue was created
    worker,         \* self._worker: the session whose thread it is, 0 for None
    silence_timer,  \* self._silence_timer: the Timer object it refers to
    leaked,         \* per session, the armed Timers it made that nothing refers to
    wstate,         \* position of each session's receive worker
    gpc,            \* position of each session's _input_stream_cycle generator
    tstate,         \* position of each thread running _silence_stop_timer
    tjoin,          \* the worker a thread of _silence_stop_timer is joining
    tsess,          \* the session that armed the timer a thread belongs to
    cpc,            \* position of the caller thread
    accepted,       \* per session, the frames send_audio_frame has put
    wire,           \* per session, the frames the generator has yielded
    finish_sent,    \* per session, whether the generator ended and finish was sent
    stopped,        \* sessions a stop() call has passed its check for
    callbacks,      \* per session, the callback methods invoked, in order
    events          \* the events taken from the environment so far

recVars == <<running, stream_data, worker, silence_timer, leaked, wstate, gpc,
             tstate, tjoin, tsess, cpc, accepted, wire, finish_sent, stopped,
             callbacks, events>>

(* State of one SpeechSynthesizer object (tts_v2), of the threads that run  *)
(* its code and of the server's task at the other end of its connection.    *)
VARIABLES
    ws,               \* self.ws: "none", an "open" or a "closed" connection
    start_event,      \* self.start_event is set
    complete_event,   \* self.complete_event is set
    task_stopped,     \* self._stopped is set
    is_started,       \* self._is_started
    is_first,         \* self._is_first
    envelopes,        \* actions of the envelopes sent on the connection, in order
    synth_callbacks,  \* the callback methods invoked, in order
    server,           \* state of the task at the server
    task_started,     \* a task-started event has been received
    spc,              \* position of each caller thread
    waiters,          \* threads of __waiting_for_complete at each position
    called,           \* calls of the streaming methods made so far
    cancelled         \* history: 0 once a streaming_cancel has returned, and
                      \* the callers whose present call began after that

synVars == <<ws, start_event, complete_event, task_stopped, is_started,
             is_first, envelopes, synth_callbacks, server, task_started, spc,
             waiters, called, cancelled>>

(* A second accumulator for replaying the fragments of the stream. *)
VARIABLES
    tape,           \* the fragments merged so far with what each call gave back
    replay_data,    \* the second accumulator
    replay_out,     \* what each call on the second accumulator gave back
    part_deltas     \* history: per choice, the part deltas concatenated per position

replayVars == <<tape, replay_data, replay_out, part_deltas>>

(* A SpeechSynthesizer made without a callback and the thread inside its   *)
(* call(); the object's attributes are the variables above.               *)
VARIABLES
    call_pc,        \* position of the thread in call(), or how call() ended
    audio_data      \* self._audio_data: the number of audio messages it holds

callVars == <<call_pc, audio_data>>

(* The SpeechSynthesizerObjectPool, its maintenance thread and the         *)
(* synthesizers the application holds.                                     *)
VARIABLES
    pool,                 \* self._pool: the PoolObjects, in list order
    avaliable,            \* self._avaliable: one flag per position of the pool
    borrowed_object_num,  \* self._borrowed_object_num
    mpc,                  \* position of the thread in __auto_reconnect
    selected,             \* the objects of this round that are still to be refreshed
    held,                 \* synthesizers the application has got from borrow_synthesizer
    lent_during,          \* history: synthesizers taken from the pool during a refresh
    made,                 \* PoolObjects and synthesizers created so far
    pool_ops,             \* calls, rounds and connection events so far
    remain_object_num,    \* self._remain_object_num
    pool_stop             \* self._stop

poolVars == <<pool, avaliable, borrowed_object_num, mpc, selected, held,
              lent_during, made, pool_ops, remain_object_num, pool_stop>>

(* One realtime session object of the application: a MultiModalDialog, a   *)
(* TingWuRealtime, an OmniRealtimeConversation, a QwenTtsRealtime or a     *)
(* SpeechSynthesizer, with the _Request and StateMachine it owns.          *)
VARIABLES
    kind,              \* the class of the session, "none" before it is constructed
    client_ws,         \* self.ws: "absent", "None", or a WebSocketApp "open" or "closed"
    task_id,           \* _Request.task_id, 0 for None
    headers,           \* the headers _get_dash_request_header has built, in order
    current_state,     \* StateMachine.current_state
    client_callbacks,  \* methods of the application's callback invoked so far
    call_outcome,      \* how the last call of the application ended
    handler_outcome,   \* how the last run of the message handler ended
    last,              \* the last call or frame: operation, event and state name
    client_ops,        \* calls and frames so far
    uuids              \* values get_random_uuid has returned so far

clientVars == <<kind, client_ws, task_id, headers, current_state,
                client_callbacks, call_outcome, handler_outcome, last,
                client_ops, uuids>>

(* One TranslationRecognizerChat object and the sessions run on it.        *)
VARIABLES
    chat_running,      \* self._running
    is_sentence_end,   \* self._is_sentence_end
    chat_worker,       \* self._worker: "None", or a thread "alive" or "dead"
    chat_session,      \* sessions start() has begun on the object
    chat_timers,       \* every Timer made so far, in order of creation
    chat_silence,      \* self._silence_timer: a position in chat_timers, 0 for None
    chat_data,         \* frames in self._stream_data
    chat_result,       \* what the last call returned or raised
    chat_last,         \* the last call, part or timer function and its session
    chat_ops,          \* calls, parts and timer functions so far
    refusal            \* history: "refused" once send_audio_frame has returned
                       \* False, "stopped" after the stop() that follows,
                       \* "restarted" after the start() that follows that

chatVars == <<chat_running, is_sentence_end, chat_worker, chat_session,
              chat_timers, chat_silence, chat_data, chat_result, chat_last,
              chat_ops, refusal>>

extraVars == <<replayVars, callVars, poolVars, clientVars, chatVars>>

otherVars == <<recVars, synVars, extraVars>>

vars == <<mergeVars, otherVars>>

\* At most one session and one timer thread per event.
Sessions == 1..MaxEvents

\* Threads of _silence_stop_timer, one per timer whose interval elapses.
Timers == 1..MaxEvents

\* self._silence_timer = None
NoTimer == [kind |-> "none", id |-> 0]

\* A Timer started in session s whose interval has not elapsed.
ArmedTimer(s) == [kind |-> "armed", id |-> s]

\* A Timer cancelled before its interval elapsed.
CancelledTimer == [kind |-> "cancelled", id |-> 0]

\* A Timer whose interval elapsed; thread t runs its function.
FiredTimer(t) == [kind |-> "fired", id |-> t]

\* The recognizer as __init__ leaves it, with no thread started.
RecNew ==
    /\ running = FALSE
    /\ stream_data = <<>>
    /\ worker = 0
    /\ silence_timer = NoTimer
    /\ leaked = [s \in Sessions |-> 0]
    /\ wstate = [s \in Sessions |-> "unused"]
    /\ gpc = [s \in Sessions |-> "unused"]
    /\ tstate = [t \in Timers |-> "unused"]
    /\ tjoin = [t \in Timers |-> 0]
    /\ tsess = [t \in Timers |-> 0]
    /\ cpc = "idle"
    /\ accepted = [s \in Sessions |-> <<>>]
    /\ wire = [s \in Sessions |-> <<>>]
    /\ finish_sent = [s \in Sessions |-> FALSE]
    /\ stopped = {}
    /\ callbacks = [s \in Sessions |-> <<>>]
    /\ events = 0

\* Threads of the application that call the synthesizer.
Callers == 1..MaxCallers

\* Positions of a thread of __waiting_for_complete.
WaiterPcs == {"wait", "close", "set", "unstart", "done"}

\* The synthesizer as __init__ leaves it, with no call made.
SynNew ==
    /\ ws = "none"
    /\ start_event = FALSE
    /\ complete_event = FALSE
    /\ task_stopped = FALSE
    /\ is_started = FALSE
    /\ is_first = TRUE
    /\ envelopes = <<>>
    /\ synth_callbacks = <<>>
    /\ server = "idle"
    /\ task_started = FALSE
    /\ spc = [c \in Callers |-> "idle"]
    /\ waiters = [p \in WaiterPcs |-> 0]
    /\ called = 0
    /\ cancelled = {}

\* Nothing merged, nothing replayed.
ReplayNew ==
    /\ tape = <<>>
    /\ replay_data = [entries |-> <<>>, usage_by_index |-> <<>>]
    /\ replay_out = <<>>
    /\ part_deltas = [i \in 0..(MaxN - 1) |-> <<>>]

\* A PoolObject with its synthesizer: whether the synthesizer's socket is
\* connected, and connect_time as "unset" (-1), "fresh" or "old" (more than
\* the reconnect interval ago).
PoolObject(id, synthesizer, connected, connect_time) ==
    [id |-> id, synthesizer |-> synthesizer, connected |-> connected,
     connect_time |-> connect_time]

\* The pool as __init__ leaves it: max_size connected synthesizers, every
\* flag True, the maintenance thread started.
PoolNew ==
    /\ pool = [i \in 1..PoolSize |-> PoolObject(i, i, TRUE, "fresh")]
    /\ avaliable = [i \in 1..PoolSize |-> TRUE]
    /\ borrowed_object_num = 0
    /\ mpc = "scan"
    /\ selected = <<>>
    /\ held = {}
    /\ lent_during = {}
    /\ made = PoolSize
    /\ pool_ops = 0
    /\ remain_object_num = PoolSize
    /\ pool_stop = FALSE

\* A call of the application or a frame of the server.
Event(op, event, state) == [op |-> op, event |-> event, state |-> state]

\* No session object yet.
ClientNew ==
    /\ kind = "none"
    /\ client_ws = "absent"
    /\ task_id = 0
    /\ headers = <<>>
    /\ current_state = "Idle"
    /\ client_callbacks = <<>>
    /\ call_outcome = "none"
    /\ handler_outcome = "none"
    /\ last = Event("none", "", "")
    /\ client_ops = 0
    /\ uuids = 0

\* The object as TranslationRecognizerChat.__init__ leaves it.
ChatNew ==
    /\ chat_running = FALSE
    /\ is_sentence_end = FALSE
    /\ chat_worker = "None"
    /\ chat_session = 0
    /\ chat_timers = <<>>
    /\ chat_silence = 0
    /\ chat_data = 0
    /\ chat_result = "None"
    /\ chat_last = [op |-> "none", session |-> 0]
    /\ chat_ops = 0
    /\ refusal = "none"

\* Every object other than the merge engine's response stream, as constructed.
OthersNew ==
    /\ RecNew
    /\ SynNew
    /\ ReplayNew
    /\ call_pc = "idle" /\ audio_data = 0
    /\ PoolNew
    /\ ClientNew
    /\ ChatNew


----------------------------------------------------------------------------
(* Values *)

StrContent(s) == [kind |-> "str", text |-> s, parts |-> <<>>]
ListContent(p) == [kind |-> "list", text |-> "", parts |-> p]
\* Python truthiness of a content value ('' and [] are falsy).
ContentTruthy(c) == IF c.kind = "str" THEN c.text # "" ELSE c.parts # <<>>

\* A message whose `not choice.message` test is true (None or {}).
NullMessage ==
    [present |-> FALSE, keys |-> {}, role |-> "", content |-> StrContent(""),
     reasoning_content |-> "", tool_calls |-> <<>>]

NoLogprobs == [present |-> FALSE, content |-> <<>>]
NoUsage == [present |-> FALSE, input_tokens |-> 0, output_tokens |-> 0,
            total_tokens |-> 0]
WireUsage(out) == [present |-> TRUE, input_tokens |-> SharedInputTokens,
                   output_tokens |-> out,
                   total_tokens |-> SharedInputTokens + out]

\* accumulated_data[choice_idx] as created on the first fragment of a choice.
NewEntry ==
    [content |-> StrContent(""), reasoning_content |-> "", tool_calls |-> <<>>,
     logprobs |-> <<>>, finished |-> FALSE, finish_reason |-> "None",
     all_choices_sent |-> FALSE, role |-> ""]

\* {} as the wrapper creates it.
EmptyData == [entries |-> <<>>, usage_by_index |-> <<>>]

\* The int-keyed part of accumulated_data is a function idx -> entry.
Keys(data) == DOMAIN data.entries
PutEntry(data, idx, e) ==
    [data EXCEPT !.entries =
        [k \in Keys(data) \cup {idx} |-> IF k = idx THEN e ELSE data.entries[k]]]

\* `choice.finish_reason and choice.finish_reason != 'null'`
Finishing(fr) == fr # "" /\ fr # "null"

----------------------------------------------------------------------------
(* Tool-call accumulation *)

\* Position of the first accumulated call with this index, 0 when none.
FindCall(calls, idx) ==
    IF \E p \in 1..Len(calls) : calls[p].has_index /\ calls[p].index = idx
    THEN CHOOSE p \in 1..Len(calls) :
            /\ calls[p].has_index /\ calls[p].index = idx
            /\ \A q \in 1..(p - 1) : ~(calls[q].has_index /\ calls[q].index = idx)
    ELSE 0

\* Tool-call merging that keeps the latest delta instead of concatenating.
UpdateCallMutant(existing, cur) == cur

\* existing_call after current_call has been merged into it.
UpdateCall(existing, cur) ==
    LET withFn == cur.has_function /\ cur.fkeys # {}
        name == IF withFn /\ "name" \in cur.fkeys
                THEN (IF "name" \in existing.fkeys THEN existing.name ELSE "")
                        \o cur.name
                ELSE existing.name
        args == IF withFn /\ "arguments" \in cur.fkeys
                THEN (IF "arguments" \in existing.fkeys
                      THEN existing.arguments ELSE "") \o cur.arguments
                ELSE existing.arguments
    IN  [has_index |-> existing.has_index,
         index |-> existing.index,
         id |-> IF cur.id # "" THEN cur.id ELSE existing.id,
         has_function |-> existing.has_function \/ withFn,
         fkeys |-> IF withFn THEN existing.fkeys \cup cur.fkeys
                   ELSE existing.fkeys,
         name |-> name,
         arguments |-> args]

\* One iteration of `for current_call in current_tool_calls`.
AccumulateCall(calls, cur) ==
    IF ~cur.has_index THEN calls
    ELSE LET p == FindCall(calls, cur.index)
         IN  IF p # 0
             THEN [calls EXCEPT ![p] = UpdateCall(calls[p], cur)]
             ELSE Append(calls, cur)

RECURSIVE AccumulateCalls(_, _)
AccumulateCalls(calls, current) ==
    IF current = <<>> THEN calls
    ELSE AccumulateCalls(AccumulateCall(calls, Head(current)), Tail(current))

----------------------------------------------------------------------------
(* Content accumulation *)

Max(a, b) == IF a >= b THEN a ELSE b

\* The accumulated part list padded to the fragment's length, each part's
\* text extended by the fragment's text at the same position.
MergeParts(acc_parts, cur_parts) ==
    [i \in 1..Max(Len(acc_parts), Len(cur_parts)) |->
        (IF i <= Len(acc_parts) THEN acc_parts[i] ELSE "")
            \o (IF i <= Len(cur_parts) THEN cur_parts[i] ELSE "")]

\* A merge that hands on the raw delta instead of the accumulated text.
ConcatMutant(acc_text, cur_text) == cur_text

\* String accumulation: `accumulated_data[choice_idx]['content'] += current`.
Concat(acc_text, cur_text) == acc_text \o cur_text

\* merge_single_response, `if 'content' in choice.message:` block.
\* Returns the accumulated content and the message's visible content.
SingleContent(acc, cur) ==
    IF ContentTruthy(cur)
    THEN IF cur.kind = "list"
         THEN LET a1 == MergeParts(IF acc.kind = "list" THEN acc.parts ELSE <<>>,
                                   cur.parts)
              IN  [acc |-> ListContent(a1),
                   visible |-> ListContent(SubSeq(a1, 1, Len(cur.parts)))]
         ELSE LET a1 == Concat(IF acc.kind = "list" THEN "" ELSE acc.text,
                               cur.text)
              IN  [acc |-> StrContent(a1), visible |-> StrContent(a1)]
    ELSE IF acc.kind # "list"
         THEN [acc |-> acc, visible |-> acc]
         ELSE [acc |-> acc,
               visible |-> IF cur.kind # "list" THEN acc ELSE cur]

\* merge_multimodal_single_response, `if 'content' in choice.message:` block.
MultimodalContent(acc, cur) ==
    IF cur.kind = "list"
    THEN LET a0 == IF acc.kind = "list" THEN acc.parts ELSE <<>>
             a1 == IF cur.parts # <<>> THEN MergeParts(a0, cur.parts) ELSE a0
         IN  [acc |-> ListContent(a1), visible |-> ListContent(a1)]
    ELSE IF cur.text # ""
         THEN LET a1 == Concat(IF acc.kind = "list" THEN "" ELSE acc.text,
                               cur.text)
              IN  [acc |-> StrContent(a1), visible |-> StrContent(a1)]
         ELSE IF ContentTruthy(acc)
              THEN [acc |-> acc, visible |-> acc]
              ELSE [acc |-> acc, visible |-> cur]

----------------------------------------------------------------------------
(* One choice of a fragment *)

\* `if not choice.message:` branch: a message rebuilt from the accumulator.
MessageFromEntry(e) ==
    [present |-> TRUE,
     keys |-> {"content"}
                \cup (IF e.reasoning_content # "" THEN {"reasoning_content"} ELSE {})
                \cup (IF e.tool_calls # <<>> THEN {"tool_calls"} ELSE {}),
     role |-> IF e.role # "" THEN e.role ELSE "assistant",
     content |-> e.content,
     reasoning_content |-> e.reasoning_content,
     tool_calls |-> e.tool_calls]

\* `if 'content' in choice.message:` of the function the wrapper calls;
\* without the key neither the accumulator nor the message changes.
ContentStep(f, e, m) ==
    IF "content" \in m.keys
    THEN (IF f = "single" THEN SingleContent(e.content, m.content)
          ELSE MultimodalContent(e.content, m.content))
    ELSE [acc |-> e.content, visible |-> m.content]

\* `if 'tool_calls' in choice.message and choice.message.tool_calls:`
HasCalls(m) == "tool_calls" \in m.keys /\ m.tool_calls # <<>>

\* accumulated_data[choice_idx]['tool_calls'] after the message's deltas.
CallsStep(e, m) ==
    IF HasCalls(m) THEN AccumulateCalls(e.tool_calls, m.tool_calls)
    ELSE e.tool_calls

\* The entry and the visible message once content (c) and tool calls (calls1)
\* are merged: role saved and restored, reasoning_content concatenated, the
\* accumulated values written back into the message.
MessageResult(e, m, c, calls1) ==
    LET role1 == IF m.role # "" THEN m.role ELSE e.role
        reasoning1 == IF "reasoning_content" \in m.keys
                      THEN e.reasoning_content \o m.reasoning_content
                      ELSE e.reasoning_content
        setCalls == HasCalls(m) \/ calls1 # <<>>
    IN  [entry |-> [e EXCEPT !.role = role1, !.content = c.acc,
                             !.reasoning_content = reasoning1,
                             !.tool_calls = calls1],
         message |->
            [present |-> TRUE,
             keys |-> m.keys
                \cup (IF reasoning1 # "" THEN {"reasoning_content"} ELSE {})
                \cup (IF setCalls THEN {"tool_calls"} ELSE {}),
             role |-> IF role1 # "" /\ m.role = "" THEN role1 ELSE m.role,
             content |-> c.visible,
             reasoning_content |-> IF reasoning1 # "" THEN reasoning1
                                   ELSE m.reasoning_content,
             tool_calls |-> IF setCalls THEN calls1 ELSE m.tool_calls]]

\* The else branch of `if not choice.message:`.
MergeMessage(f, e, m) ==
    MessageResult(e, m, ContentStep(f, e, m), CallsStep(e, m))

\* `if not choice.message: ... else: ...`
MessageStep(f, e, m) ==
    IF ~m.present THEN [entry |-> e, message |-> MessageFromEntry(e)]
    ELSE MergeMessage(f, e, m)

\* Logprobs: the accumulated list extended by the fragment's.
MergeLogprobs(acc_lp, lp) ==
    IF lp.present /\ lp.content # <<>> THEN acc_lp \o lp.content ELSE acc_lp

\* Entries made from one template object that every accumulator shares, so
\* that a new entry starts with what the first accumulator has put into it.
EnsureEntryMutant(data, idx) ==
    IF idx \in Keys(data) THEN data
    ELSE PutEntry(data, idx, IF idx \in Keys(accumulated_data)
                             THEN accumulated_data.entries[idx] ELSE NewEntry)

\* `if choice_idx not in accumulated_data: accumulated_data[choice_idx] = {...}`
EnsureEntry(data, idx) ==
    IF idx \in Keys(data) THEN data ELSE PutEntry(data, idx, NewEntry)

\* The rest of the loop body once the message is merged (mm): logprobs, and
\* for n > 1 the finish_reason and finished flag of the entry.
ChoiceResult(nn, d0, choice, mm) ==
    LET lp1 == MergeLogprobs(mm.entry.logprobs, choice.logprobs)
        fin == nn > 1 /\ Finishing(choice.finish_reason)
    IN  [data |-> PutEntry(d0, choice.index,
                    [mm.entry EXCEPT
                        !.logprobs = lp1,
                        !.finish_reason = IF fin THEN choice.finish_reason ELSE @,
                        !.finished = IF fin THEN TRUE ELSE @]),
         choice |-> [choice EXCEPT
                       !.message = mm.message,
                       !.logprobs = IF lp1 # <<>> /\ choice.logprobs.present
                                    THEN [present |-> TRUE, content |-> lp1]
                                    ELSE @]]

MergeChoiceIn(f, nn, d0, choice) ==
    ChoiceResult(nn, d0, choice,
                 MessageStep(f, d0.entries[choice.index], choice.message))

\* Body of `for choice_enum_idx, choice in enumerate(choices)` for one choice.
\* Returns accumulated_data and the choice as the caller sees it afterwards.
MergeChoice(f, nn, data, choice) ==
    MergeChoiceIn(f, nn, EnsureEntry(data, choice.index), choice)

\* The loop state after one more choice (h) has been merged.
Push(done, h) == [data |-> h.data, choices |-> Append(done, h.choice)]

\* The whole loop: choices are merged in order, each against the accumulator
\* the earlier ones left. st = [data, choices merged so far].
RECURSIVE MergeLoop(_, _, _, _)
MergeLoop(f, nn, st, choices) ==
    IF choices = <<>> THEN st
    ELSE MergeLoop(f, nn,
                   Push(st.choices, MergeChoice(f, nn, st.data, Head(choices))),
                   Tail(choices))

MergeChoices(f, nn, data, choices) ==
    MergeLoop(f, nn, [data |-> data, choices |-> <<>>], choices)

----------------------------------------------------------------------------
(* The all-sent check and the usage bookkeeping *)

\* `if accumulated_data:` (a dict is truthy when it holds any key).
DataTruthy(data) == Keys(data) # {} \/ data.usage_by_index # <<>>

\* merge_single_response: all() over the entries that hold 'all_choices_sent'
\* (usage_by_index holds no such key and is skipped).
AllSentSingle(data) == \A k \in Keys(data) : data.entries[k].all_choices_sent

\* merge_multimodal_single_response: any() over every value of the dict.
AllSentMultimodal(data) == \E k \in Keys(data) : data.entries[k].all_choices_sent

\* `if n > 1 and accumulated_data: ... if all_sent: return False`
AllSent(f, nn, data) ==
    /\ nn > 1
    /\ DataTruthy(data)
    /\ IF f = "single" THEN AllSentSingle(data) ELSE AllSentMultimodal(data)

\* usage_by_index is a dict: its keys in insertion order, each with the usage
\* stored last. Position of idx, 0 when absent.
UsagePos(ubi, idx) ==
    IF \E p \in 1..Len(ubi) : ubi[p].idx = idx
    THEN CHOOSE p \in 1..Len(ubi) : ubi[p].idx = idx
    ELSE 0

\* Usage bookkeeping that records every report instead of the last per index.
StoreUsageMutant(ubi, idx, usage) == Append(ubi, [idx |-> idx, usage |-> usage])

\* `accumulated_data['usage_by_index'][choice_idx] = dict(parsed_response.usage)`
StoreUsage(ubi, idx, usage) ==
    LET p == UsagePos(ubi, idx)
    IN  IF p # 0 THEN [ubi EXCEPT ![p] = [idx |-> idx, usage |-> usage]]
        ELSE Append(ubi, [idx |-> idx, usage |-> usage])

\* The usage tracking at the head of both merge functions.
TrackUsage(nn, data, frag) ==
    IF nn > 1 /\ frag.usage.present /\ frag.choices # <<>>
    THEN [data EXCEPT !.usage_by_index =
            StoreUsage(@, frag.choices[1].index, frag.usage)]
    ELSE data

RECURSIVE SumOutputTokens(_)
SumOutputTokens(ubi) ==
    IF ubi = <<>> THEN 0
    ELSE Head(ubi).usage.output_tokens + SumOutputTokens(Tail(ubi))

\* `aggregated_usage` of the merged final fragment.
AggregateUsage(ubi) ==
    LET input_tokens == ubi[1].usage.input_tokens
        total_output_tokens == SumOutputTokens(ubi)
    IN  [present |-> TRUE, input_tokens |-> input_tokens,
         output_tokens |-> total_output_tokens,
         total_tokens |-> input_tokens + total_output_tokens]

----------------------------------------------------------------------------
(* The output.text path *)

\* The text path without `parsed_response.output.text = ...`: the fragment
\* keeps the text it arrived with.
MergeTextMutant(data, frag) ==
    LET d0 == IF 0 \in Keys(data) THEN data ELSE PutEntry(data, 0, NewEntry)
        e0 == d0.entries[0]
        c1 == StrContent(Concat(e0.content.text, frag.text))
    IN  [data |-> PutEntry(d0, 0, [e0 EXCEPT !.content = c1]),
         response |-> frag]

\* `if parsed_response.output and hasattr(output, 'text') and not choices:`
\* Entry 0 is created when missing, the text appended, output.text overwritten.
MergeText(data, frag) ==
    LET d0 == IF 0 \in Keys(data) THEN data ELSE PutEntry(data, 0, NewEntry)
        e0 == d0.entries[0]
        c1 == StrContent(Concat(e0.content.text, frag.text))
    IN  [data |-> PutEntry(d0, 0, [e0 EXCEPT !.content = c1]),
         response |-> [frag EXCEPT !.text = c1.text]]

----------------------------------------------------------------------------
(* n > 1: the stop barrier and the fan-out *)

RECURSIVE SortedKeys(_)
SortedKeys(S) ==
    IF S = {} THEN <<>>
    ELSE LET m == CHOOSE x \in S : \A y \in S : x <= y
         IN  <<m>> \o SortedKeys(S \ {m})

\* `final_choice_dict` built from one accumulator entry.
FinalChoice(idx, e) ==
    [index |-> idx,
     finish_reason |-> e.finish_reason,
     message |->
        [present |-> TRUE,
         keys |-> (IF ContentTruthy(e.content) THEN {"content"} ELSE {})
                    \cup (IF e.reasoning_content # "" THEN {"reasoning_content"} ELSE {})
                    \cup (IF e.tool_calls # <<>> THEN {"tool_calls"} ELSE {}),
         role |-> IF e.role # "" THEN e.role ELSE "assistant",
         content |-> IF ContentTruthy(e.content) THEN e.content ELSE StrContent(""),
         reasoning_content |-> e.reasoning_content,
         tool_calls |-> e.tool_calls],
     logprobs |-> IF e.logprobs # <<>>
                  THEN [present |-> TRUE, content |-> e.logprobs]
                  ELSE NoLogprobs]

\* `all_choices`: one final choice per accumulator entry, ascending index.
AllChoices(data) ==
    LET ks == SortedKeys(Keys(data))
    IN  [p \in 1..Len(ks) |-> FinalChoice(ks[p], data.entries[ks[p]])]

\* A final merge that forgets to mark the entries as sent.
MarkAllSentMutant(data) == data

\* `for data in accumulated_data.values(): data['all_choices_sent'] = True`
MarkAllSent(data) ==
    [data EXCEPT !.entries =
        [k \in Keys(data) |-> [data.entries[k] EXCEPT !.all_choices_sent = TRUE]]]

\* A fan-out that marks every entry, not only the emitted choice's.
MarkSentMutant(data, idx) ==
    [data EXCEPT !.entries =
        [k \in Keys(data) |-> [data.entries[k] EXCEPT !.all_choices_sent = TRUE]]]

\* `current_data['all_choices_sent'] = True` for one fanned-out choice.
MarkSent(data, idx) ==
    [data EXCEPT !.entries[idx].all_choices_sent = TRUE]

\* A barrier that leaves the finish_reason of an early finisher visible.
HideFinishMutant(choices) == choices

\* Hide finish_reason until all finished.
HideFinish(choices) ==
    [p \in 1..Len(choices) |->
        IF Finishing(choices[p].finish_reason)
        THEN [choices[p] EXCEPT !.finish_reason = "null"]
        ELSE choices[p]]

\* The stop branch once finished_count >= n: every entry marked sent, the
\* response's choices replaced by all_choices, its usage by the aggregate.
StopMerge(data, resp) ==
    LET d1 == MarkAllSent(data)
    IN  [data |-> d1,
         response |->
            [resp EXCEPT
                !.choices = AllChoices(d1),
                !.usage = IF data.usage_by_index # <<>>
                          THEN AggregateUsage(data.usage_by_index)
                          ELSE @]]

\* new_response.usage after the per-choice update of the fan-out.
FanOutUsage(ubi, idx, usage) ==
    LET p == UsagePos(ubi, idx)
    IN  IF usage.present /\ p # 0
        THEN [usage EXCEPT
                !.output_tokens = ubi[p].usage.output_tokens,
                !.total_tokens = ubi[p].usage.input_tokens
                                    + ubi[p].usage.output_tokens]
        ELSE usage

\* `for choice_idx, finish_reason, choice in finished_choices_in_packet`.
\* st = [data, base, responses]: base is parsed_response, which the first
\* emitted response shares (later ones are deep copies of it).
RECURSIVE FanOut(_, _)
FanOut(st, packet) ==
    IF packet = <<>> THEN st
    ELSE LET choice == Head(packet)
             idx == choice.index
         IN  IF st.data.entries[idx].all_choices_sent
             THEN FanOut(st, Tail(packet))
             ELSE LET new_response ==
                        [st.base EXCEPT
                            !.choices = <<choice>>,
                            !.usage = FanOutUsage(st.data.usage_by_index, idx, @)]
                  IN  FanOut([data |-> MarkSent(st.data, idx),
                              base |-> IF st.responses = <<>> THEN new_response
                                       ELSE st.base,
                              responses |-> Append(st.responses, new_response)],
                             Tail(packet))

----------------------------------------------------------------------------
(* merge_single_response / merge_multimodal_single_response *)

IsFinishing(choice) == Finishing(choice.finish_reason)

\* A call that returns True: the wrapper yields parsed_response.
Yield(data, resp) ==
    [data |-> data, result |-> "True", responses |-> <<resp>>, all_sent |-> FALSE]

YieldMerged(m) == Yield(m.data, m.response)

\* `return responses_to_yield` when the list is not empty, else `return False`.
FanOutResult(st) ==
    [data |-> st.data,
     result |-> IF st.responses # <<>> THEN "List" ELSE "False",
     responses |-> st.responses,
     all_sent |-> FALSE]

\* `if n > 1:` after the loop. resp is parsed_response with its merged choices.
Barrier(nn, data, resp) ==
    LET finished_count == Cardinality({k \in Keys(data) : data.entries[k].finished})
        finished_choices_in_packet == SelectSeq(resp.choices, IsFinishing)
    IN  IF finished_choices_in_packet = <<>>
        THEN Yield(data, resp)
        ELSE IF Head(finished_choices_in_packet).finish_reason = "stop"
        THEN IF finished_count < nn
             THEN Yield(data, [resp EXCEPT !.choices = HideFinish(@)])
             ELSE YieldMerged(StopMerge(data, resp))
        ELSE FanOutResult(FanOut([data |-> data, base |-> resp, responses |-> <<>>],
                                 finished_choices_in_packet))

\* The code after the loop with the n > 1 strategies applied for every n.
AfterLoopMutant(nn, m, frag) ==
    Barrier(nn, m.data, [frag EXCEPT !.choices = m.choices])

\* After the loop over the choices: m = [data, choices] as the loop left them.
AfterLoop(nn, m, frag) ==
    IF nn > 1 THEN Barrier(nn, m.data, [frag EXCEPT !.choices = m.choices])
    ELSE Yield(m.data, [frag EXCEPT !.choices = m.choices])

\* The function body after the usage tracking (d1 = accumulated_data then).
AfterUsage(f, nn, d1, frag) ==
    IF frag.has_text /\ frag.choices = <<>>
    THEN YieldMerged(MergeText(d1, frag))
    ELSE IF frag.choices # <<>>
    THEN AfterLoop(nn, MergeChoices(f, nn, d1, frag.choices), frag)
    ELSE Yield(d1, frag)

\* The function body after the all-sent check.
MergeBody(f, nn, data, frag) ==
    AfterUsage(f, nn, TrackUsage(nn, data, frag), frag)

\* One call: accumulated_data afterwards, the return value ("True", "False"
\* or "List"), the responses the stream wrapper yields for it
\* (parsed_response on True, each element on a list, nothing on False), and
\* whether the call ended at the all-sent check.
Merge(f, nn, data, frag) ==
    IF AllSent(f, nn, data)
    THEN [data |-> data, result |-> "False", responses |-> <<>>, all_sent |-> TRUE]
    ELSE MergeBody(f, nn, data, frag)

----------------------------------------------------------------------------
(* Fragments the wire carries *)

ToolCall(idx, id, fkeys, name, arguments) ==
    [has_index |-> TRUE, index |-> idx, id |-> id, has_function |-> TRUE,
     fkeys |-> fkeys, name |-> name, arguments |-> arguments]

NameDelta == ToolCall(0, "c0", {"name"}, "get_", "")
OpenDelta == ToolCall(0, "", {"arguments"}, "", "{")
CloseDelta == ToolCall(0, "", {"arguments"}, "", "}")
SecondCall == ToolCall(1, "c1", {"name", "arguments"}, "f", "{")

Choice(idx, message, finish_reason) ==
    [index |-> idx, message |-> message, finish_reason |-> finish_reason,
     logprobs |-> NoLogprobs]

ContentMessage(delta) ==
    [present |-> TRUE, keys |-> {"content"}, role |-> "assistant",
     content |-> StrContent(delta), reasoning_content |-> "", tool_calls |-> <<>>]

ToolCallMessage(calls) ==
    [present |-> TRUE, keys |-> {"content", "tool_calls"}, role |-> "assistant",
     content |-> StrContent(""), reasoning_content |-> "", tool_calls |-> calls]

Fragment(choices, usage) ==
    [choices |-> choices, usage |-> usage, has_text |-> FALSE, text |-> ""]

NoFragment == Fragment(<<>>, NoUsage)

----------------------------------------------------------------------------
(* History of the wire, kept beside the program state *)

\* Per choice index: the content and tool-call deltas concatenated, the last
\* finish_reason reported, whether a finish_reason other than 'stop' was ever
\* reported, and the output_tokens reported last.
NoSent ==
    [content |-> "", calls |-> <<>>, finish |-> "", nonstop |-> FALSE,
     output_tokens |-> 0]

\* The tool-call history: per tool-call index, in order of first appearance,
\* the concatenation of the name and of the argument deltas.
CallPos(cs, idx) ==
    IF \E p \in 1..Len(cs) : cs[p].index = idx
    THEN CHOOSE p \in 1..Len(cs) : cs[p].index = idx
    ELSE 0

RECURSIVE SentCalls(_, _)
SentCalls(cs, deltas) ==
    IF deltas = <<>> THEN cs
    ELSE LET d == Head(deltas)
             p == CallPos(cs, d.index)
             nm == IF "name" \in d.fkeys THEN d.name ELSE ""
             ar == IF "arguments" \in d.fkeys THEN d.arguments ELSE ""
         IN  SentCalls(
                IF p = 0
                THEN Append(cs, [index |-> d.index, name |-> nm, arguments |-> ar])
                ELSE [cs EXCEPT ![p].name = @ \o nm, ![p].arguments = @ \o ar],
                Tail(deltas))

RECURSIVE SentChoices(_, _, _)
SentChoices(s, choices, usage) ==
    IF choices = <<>> THEN s
    ELSE LET c == Head(choices)
             old == s[c.index]
             new == [content |-> IF c.message.present /\ "content" \in c.message.keys
                                 THEN old.content \o c.message.content.text
                                 ELSE old.content,
                     calls |-> IF c.message.present
                               THEN SentCalls(old.calls, c.message.tool_calls)
                               ELSE old.calls,
                     finish |-> IF Finishing(c.finish_reason) THEN c.finish_reason
                                ELSE old.finish,
                     nonstop |-> old.nonstop
                                    \/ (Finishing(c.finish_reason)
                                            /\ c.finish_reason # "stop"),
                     output_tokens |-> IF usage.present THEN usage.output_tokens
                                       ELSE old.output_tokens]
         IN  SentChoices([s EXCEPT ![c.index] = new], Tail(choices), NoUsage)

\* A fragment of the output.text shape counts as text of choice 0.
SentAfter(s, frag) ==
    IF frag.choices = <<>>
    THEN IF frag.has_text THEN [s EXCEPT ![0].content = @ \o frag.text] ELSE s
    ELSE SentChoices(s, frag.choices, frag.usage)

\* Number of choices with index idx that the responses carry in terminal
\* form (with a finish_reason that is neither empty nor 'null').
RECURSIVE TerminalCount(_, _)
TerminalCount(responses, idx) ==
    IF responses = <<>> THEN 0
    ELSE Len(SelectSeq(Head(responses).choices,
                       LAMBDA c : c.index = idx /\ IsFinishing(c)))
            + TerminalCount(Tail(responses), idx)

----------------------------------------------------------------------------
(* The stream wrapper: one merge call per fragment *)

Indices == 0..(MaxN - 1)

Start(ns) ==
    /\ fn \in {"single", "multimodal"}
    /\ n \in ns
    /\ accumulated_data = EmptyData
    /\ prev_data = EmptyData
    /\ fragment = NoFragment
    /\ result = "None"
    /\ yielded = <<>>
    /\ filtered_all_sent = FALSE
    /\ sent = [i \in Indices |-> NoSent]
    /\ prev_sent = [i \in Indices |-> NoSent]
    /\ emitted = [i \in Indices |-> 0]
    /\ fanned = {}
    /\ count = 0
    /\ OthersNew

\* `for rsp in response: result = merge(parsed_response, accumulated_data, n)`
\* followed by the wrapper's yields.
Record(m, frag) ==
    /\ accumulated_data' = m.data
    /\ prev_data' = accumulated_data
    /\ fragment' = frag
    /\ result' = m.result
    /\ yielded' = m.responses
    /\ filtered_all_sent' = m.all_sent
    /\ sent' = SentAfter(sent, frag)
    /\ prev_sent' = sent
    /\ emitted' = [i \in Indices |-> emitted[i] + TerminalCount(m.responses, i)]
    /\ fanned' = IF m.result = "List"
                 THEN fanned \cup {i \in Indices : TerminalCount(m.responses, i) > 0}
                 ELSE fanned
    /\ UNCHANGED <<fn, n>>

Step(frag) ==
    /\ count' = count + 1
    /\ Record(Merge(fn, n, accumulated_data, frag), frag)
    /\ UNCHANGED otherVars

(* Streams of n parallel choices: content, usage reports, finishes, tool calls *)

\* A fragment with one choice carrying a string content delta.
ReceiveContent ==
    /\ count < MaxFragments
    /\ \E idx \in 0..(n - 1), d \in {"a", "b"} :
           Step(Fragment(<<Choice(idx, ContentMessage(d), "null")>>, NoUsage))

\* A fragment with an empty delta that reports the choice's usage so far.
ReceiveUsage ==
    /\ count < MaxFragments
    /\ \E idx \in 0..(n - 1) :
           Step(Fragment(<<Choice(idx, ContentMessage(""), "null")>>, WireUsage(1)))

\* The fragment that ends a choice, with or without a usage record.
ReceiveFinish ==
    /\ count < MaxFragments
    /\ \E idx \in 0..(n - 1), fr \in {"stop", "tool_calls"},
          u \in {NoUsage, WireUsage(MaxOutputTokens)} :
           Step(Fragment(<<Choice(idx, ContentMessage(""), fr)>>, u))

\* A fragment with one choice carrying one tool-call delta.
ReceiveToolCall ==
    /\ count < MaxFragments
    /\ \E idx \in 0..(n - 1), tc \in {NameDelta, OpenDelta} :
           Step(Fragment(<<Choice(idx, ToolCallMessage(<<tc>>), "null")>>, NoUsage))

\* A fragment whose choices list is empty; the output object may or may not
\* expose a text attribute.
ReceiveEmptyChoices ==
    /\ count < MaxFragments
    /\ \E ht \in BOOLEAN :
           Step([NoFragment EXCEPT !.has_text = ht])

Init == Start(1..MaxN)

Next ==
    \/ ReceiveContent
    \/ ReceiveUsage
    \/ ReceiveFinish
    \/ ReceiveToolCall
    \/ ReceiveEmptyChoices

MergeSpec == Init /\ [][Next]_vars

(* Streams of one choice (n = 1): deltas of every shape, in any order *)

\* A content delta, possibly empty, with or without a finish_reason.
ReceiveDelta ==
    /\ count < MaxDeltas
    /\ \E d \in {"", "a", "b"}, fr \in {"null", "stop"} :
           Step(Fragment(<<Choice(0, ContentMessage(d), fr)>>, NoUsage))

\* One or two tool-call deltas in one fragment.
ReceiveToolCallDelta ==
    /\ count < MaxDeltas
    /\ \E calls \in {<<NameDelta>>, <<OpenDelta>>, <<CloseDelta>>, <<SecondCall>>,
                     <<NameDelta, SecondCall>>} :
           Step(Fragment(<<Choice(0, ToolCallMessage(calls), "null")>>, NoUsage))

\* A fragment whose choice has no message.
ReceiveNullMessage ==
    /\ count < MaxDeltas
    /\ \E fr \in {"null", "tool_calls"} :
           Step(Fragment(<<Choice(0, NullMessage, fr)>>, NoUsage))

\* A fragment of the output.text shape (no choices).
ReceiveText ==
    /\ count < MaxDeltas
    /\ \E t \in {"a", "b"} :
           Step([NoFragment EXCEPT !.has_text = TRUE, !.text = t])

ReceiveEmpty ==
    /\ count < MaxDeltas
    /\ \E ht \in BOOLEAN :
           Step([NoFragment EXCEPT !.has_text = ht])

InitDelta == Start({1})

NextDelta ==
    \/ ReceiveDelta
    \/ ReceiveToolCallDelta
    \/ ReceiveNullMessage
    \/ ReceiveText
    \/ ReceiveEmpty

DeltaSpec == InitDelta /\ [][NextDelta]_vars

----------------------------------------------------------------------------
(* TranslationRecognizerRealtime / TranslationRecognizerChat.              *)
(* Four kinds of thread share one object: the caller (start,               *)
(* send_audio_frame, stop), the receive worker of each session, the        *)
(* transport pulling _input_stream_cycle of each session, and one thread   *)
(* per silence timer that fires. A step is one access to a shared          *)
(* attribute. _recognition_once is False throughout (start() sets it).     *)

\* Thread.is_alive() of a Timer: armed, or running _silence_stop_timer.
IsAlive(tm) ==
    \/ tm.kind = "armed"
    \/ tm.kind = "fired" /\ tstate[tm.id] # "dead"

\* Threads whose timer has fired.
Fired == {t \in Timers : tstate[t] # "unused"}

WorkerAlive(s) == wstate[s] \notin {"unused", "dead"}

\* Timer.cancel(): an armed timer never fires; a running function goes on.
Cancel(tm) == IF tm.kind = "armed" THEN CancelledTimer ELSE tm

\* An assignment to self._silence_timer drops the reference to the old
\* object, which stays armed if nobody cancelled it.
Drop(tm) ==
    leaked' = IF tm.kind = "armed" THEN [leaked EXCEPT ![tm.id] = @ + 1]
              ELSE leaked

GenEnded(s) == gpc[s] \in {"done", "crashed", "closed"}

Range(q) == {q[i] : i \in 1..Len(q)}

NextSession == Cardinality({s \in Sessions : wstate[s] # "unused"}) + 1

NextThread == Cardinality(Fired) + 1

NextFrame == Cardinality(UNION {Range(accepted[s]) : s \in Sessions}) + 1

\* A LIFO queue in place of queue.Queue.
GetMutant(q) == [frame |-> q[Len(q)], rest |-> SubSeq(q, 1, Len(q) - 1)]

\* `frame = self._stream_data.get()` on a queue that is not empty.
Get(q) == [frame |-> Head(q), rest |-> Tail(q)]

\* `self._callback.<name>()` in session s.
Callback(s, name) == callbacks' = [callbacks EXCEPT ![s] = Append(@, name)]

\* Positions of the caller between two calls: before any call ("idle"),
\* right after a stop() that returned, right after a call that raised.
Raised == {"start_raised", "start_failed", "send_raised", "stop_raised",
           "stop_crashed"}

\* The caller goes on after a call has returned or raised.
CallerResume ==
    /\ cpc \in Raised \cup {"stop_returned"}
    /\ cpc' = "idle"
    /\ UNCHANGED <<mergeVars, synVars, extraVars, events, running,
                   stream_data, worker, silence_timer, leaked, wstate, gpc,
                   tstate, tjoin, tsess, accepted, wire, finish_sent, stopped,
                   callbacks>>

(* start() *)

\* A start() without the check of _running.
StartCheckMutant ==
    /\ cpc = "idle"
    /\ cpc' = "start_worker"
    /\ events < MaxEvents
    /\ events' = events + 1
    /\ UNCHANGED <<mergeVars, synVars, extraVars, running, stream_data,
                   worker, silence_timer, leaked, wstate, gpc, tstate, tjoin,
                   tsess, accepted, wire, finish_sent, stopped, callbacks>>

\* `if self._running: raise InvalidParameter(...)`
StartCheck ==
    /\ cpc = "idle"
    /\ cpc' = IF running THEN "start_raised" ELSE "start_worker"
    /\ events < MaxEvents
    /\ events' = events + 1
    /\ UNCHANGED <<mergeVars, synVars, extraVars, running, stream_data,
                   worker, silence_timer, leaked, wstate, gpc, tstate, tjoin,
                   tsess, accepted, wire, finish_sent, stopped, callbacks>>

\* `self._worker = threading.Thread(...); self._worker.start()`: the worker
\* launches the request, whose transport pulls _input_stream_cycle.
StartWorker ==
    /\ cpc = "start_worker"
    /\ worker' = NextSession
    /\ wstate' = [wstate EXCEPT ![NextSession] = "recv"]
    /\ gpc' = [gpc EXCEPT ![NextSession] = "loop"]
    /\ cpc' = "start_running"
    /\ UNCHANGED <<mergeVars, synVars, extraVars, events, running,
                   stream_data, silence_timer, leaked, tstate, tjoin, tsess,
                   accepted, wire, finish_sent, stopped, callbacks>>

\* `if self._worker.is_alive(): self._running = True; self._callback.on_open()`
\* `else: self._running = False; raise InvalidTask(...)`
StartRunning ==
    /\ cpc = "start_running"
    /\ IF WorkerAlive(worker)
       THEN /\ running' = TRUE
            /\ Callback(worker, "on_open")
            /\ cpc' = "start_timer"
       ELSE /\ running' = FALSE
            /\ cpc' = "start_failed"
            /\ UNCHANGED callbacks
    /\ UNCHANGED <<mergeVars, synVars, extraVars, events, stream_data, worker,
                   silence_timer, leaked, wstate, gpc, tstate, tjoin, tsess,
                   accepted, wire, finish_sent, stopped>>

\* `self._silence_timer = Timer(...); self._silence_timer.start()`
StartTimer ==
    /\ cpc = "start_timer"
    /\ silence_timer' = ArmedTimer(worker)
    /\ Drop(silence_timer)
    /\ cpc' = "idle"
    /\ UNCHANGED <<mergeVars, synVars, extraVars, events, running,
                   stream_data, worker, wstate, gpc, tstate, tjoin, tsess,
                   accepted, wire, finish_sent, stopped, callbacks>>

(* send_audio_frame() *)

\* A send_audio_frame() that queues the frame whatever the state.
SendCheckMutant ==
    /\ cpc = "idle"
    /\ worker # 0
    /\ cpc' = "send_put"
    /\ events < MaxEvents
    /\ events' = events + 1
    /\ UNCHANGED <<mergeVars, synVars, extraVars, running, stream_data,
                   worker, silence_timer, leaked, wstate, gpc, tstate, tjoin,
                   tsess, accepted, wire, finish_sent, stopped, callbacks>>

\* `if self._running is False: raise InvalidParameter(...)`
SendCheck ==
    /\ cpc = "idle"
    /\ cpc' = IF ~running THEN "send_raised" ELSE "send_put"
    /\ events < MaxEvents
    /\ events' = events + 1
    /\ UNCHANGED <<mergeVars, synVars, extraVars, running, stream_data,
                   worker, silence_timer, leaked, wstate, gpc, tstate, tjoin,
                   tsess, accepted, wire, finish_sent, stopped, callbacks>>

\* `self._stream_data.put(buffer)`
SendPut ==
    /\ cpc = "send_put"
    /\ stream_data' = Append(stream_data, NextFrame)
    /\ accepted' = [accepted EXCEPT ![worker] = Append(@, NextFrame)]
    /\ cpc' = "idle"
    /\ UNCHANGED <<mergeVars, synVars, extraVars, events, running, worker,
                   silence_timer, leaked, wstate, gpc, tstate, tjoin, tsess,
                   wire, finish_sent, stopped, callbacks>>

(* stop() *)

\* A stop() without the check of _running.
StopCheckMutant ==
    /\ cpc \in {"idle", "stop_returned"}
    /\ worker # 0
    /\ cpc' = "stop_running"
    /\ events < MaxEvents
    /\ events' = events + 1
    /\ UNCHANGED <<mergeVars, synVars, extraVars, running, stream_data,
                   worker, silence_timer, leaked, wstate, gpc, tstate, tjoin,
                   tsess, accepted, wire, finish_sent, stopped, callbacks>>

\* `if self._running is False: raise InvalidParameter(...)`
StopCheck ==
    /\ cpc \in {"idle", "stop_returned"}
    /\ cpc' = IF ~running THEN "stop_raised" ELSE "stop_running"
    /\ events < MaxEvents
    /\ events' = events + 1
    /\ UNCHANGED <<mergeVars, synVars, extraVars, running, stream_data,
                   worker, silence_timer, leaked, wstate, gpc, tstate, tjoin,
                   tsess, accepted, wire, finish_sent, stopped, callbacks>>

\* `self._running = False`
StopRunning ==
    /\ cpc = "stop_running"
    /\ running' = FALSE
    /\ stopped' = stopped \cup {worker}
    /\ cpc' = "stop_join"
    /\ UNCHANGED <<mergeVars, synVars, extraVars, events, stream_data, worker,
                   silence_timer, leaked, wstate, gpc, tstate, tjoin, tsess,
                   accepted, wire, finish_sent, callbacks>>

\* `if self._worker is not None and self._worker.is_alive(): self._worker.join()`
StopJoin ==
    /\ cpc = "stop_join"
    /\ ~WorkerAlive(worker)
    /\ cpc' = "stop_queue"
    /\ UNCHANGED <<mergeVars, synVars, extraVars, events, running,
                   stream_data, worker, silence_timer, leaked, wstate, gpc,
                   tstate, tjoin, tsess, accepted, wire, finish_sent, stopped,
                   callbacks>>

\* `self._stream_data = Queue()`
StopQueue ==
    /\ cpc = "stop_queue"
    /\ stream_data' = <<>>
    /\ cpc' = "stop_timer"
    /\ UNCHANGED <<mergeVars, synVars, extraVars, events, running, worker,
                   silence_timer, leaked, wstate, gpc, tstate, tjoin, tsess,
                   accepted, wire, finish_sent, stopped, callbacks>>

\* `if self._callback: self._callback.on_close()`, and stop() returns.
Close ==
    /\ Callback(worker, "on_close")
    /\ cpc' = "stop_returned"

\* `if self._silence_timer is not None and self._silence_timer.is_alive():`
StopTimerCheck ==
    /\ cpc = "stop_timer"
    /\ IF IsAlive(silence_timer)
       THEN cpc' = "stop_cancel" /\ UNCHANGED callbacks
       ELSE Close
    /\ UNCHANGED <<mergeVars, synVars, extraVars, events, running,
                   stream_data, worker, silence_timer, leaked, wstate, gpc,
                   tstate, tjoin, tsess, accepted, wire, finish_sent, stopped>>

\* `self._silence_timer.cancel(); self._silence_timer = None`. The attribute
\* is read again: when it has become None the call raises AttributeError.
StopCancel ==
    /\ cpc = "stop_cancel"
    /\ IF silence_timer = NoTimer
       THEN cpc' = "stop_crashed" /\ UNCHANGED callbacks
       ELSE Close
    /\ silence_timer' = NoTimer
    /\ UNCHANGED <<mergeVars, synVars, extraVars, events, running,
                   stream_data, worker, leaked, wstate, gpc, tstate, tjoin,
                   tsess, accepted, wire, finish_sent, stopped>>

(* The receive worker and the transport of session s *)

\* The server answers with a part whose status is not OK and the transport
\* pulls the generator no more; the worker enters the else branch of its
\* loop: `self._running = False`
ServerError(s) ==
    /\ wstate[s] = "recv"
    /\ events < MaxEvents
    /\ events' = events + 1
    /\ running' = FALSE
    /\ wstate' = [wstate EXCEPT ![s] = "err_queue"]
    /\ gpc' = [gpc EXCEPT ![s] = IF GenEnded(s) THEN @ ELSE "closed"]
    /\ UNCHANGED <<mergeVars, synVars, extraVars, stream_data, worker,
                   silence_timer, leaked, tstate, tjoin, tsess, cpc, accepted,
                   wire, finish_sent, stopped, callbacks>>

\* `self._stream_data = Queue()`
WorkerQueue(s) ==
    /\ wstate[s] = "err_queue"
    /\ stream_data' = <<>>
    /\ wstate' = [wstate EXCEPT ![s] = "err_error"]
    /\ UNCHANGED <<mergeVars, synVars, extraVars, events, running, worker,
                   silence_timer, leaked, gpc, tstate, tjoin, tsess, cpc,
                   accepted, wire, finish_sent, stopped, callbacks>>

\* `self._callback.on_error(part)`
WorkerOnError(s) ==
    /\ wstate[s] = "err_error"
    /\ Callback(s, "on_error")
    /\ wstate' = [wstate EXCEPT ![s] = "err_close"]
    /\ UNCHANGED <<mergeVars, synVars, extraVars, events, running,
                   stream_data, worker, silence_timer, leaked, gpc, tstate,
                   tjoin, tsess, cpc, accepted, wire, finish_sent, stopped>>

\* `self._callback.on_close(); break`: the thread ends.
WorkerOnClose(s) ==
    /\ wstate[s] = "err_close"
    /\ Callback(s, "on_close")
    /\ wstate' = [wstate EXCEPT ![s] = "dead"]
    /\ UNCHANGED <<mergeVars, synVars, extraVars, events, running,
                   stream_data, worker, silence_timer, leaked, gpc, tstate,
                   tjoin, tsess, cpc, accepted, wire, finish_sent, stopped>>

\* The server answers audio it has received with a part whose status is OK
\* and whose output is not empty: `self._callback.on_event(...)`
WorkerEvent(s) ==
    /\ wstate[s] = "recv"
    /\ wire[s] # <<>>
    /\ events < MaxEvents
    /\ events' = events + 1
    /\ Callback(s, "on_event")
    /\ UNCHANGED <<mergeVars, synVars, extraVars, running, stream_data,
                   worker, silence_timer, leaked, wstate, gpc, tstate, tjoin,
                   tsess, cpc, accepted, wire, finish_sent, stopped>>

\* The server's last part (OK, empty output) answers the finish command:
\* on_complete, the response stream ends and with it the worker thread.
WorkerComplete(s) ==
    /\ wstate[s] = "recv"
    /\ finish_sent[s]
    /\ Callback(s, "on_complete")
    /\ wstate' = [wstate EXCEPT ![s] = "dead"]
    /\ UNCHANGED <<mergeVars, synVars, extraVars, events, running,
                   stream_data, worker, silence_timer, leaked, gpc, tstate,
                   tjoin, tsess, cpc, accepted, wire, finish_sent, stopped>>

\* An exception out of the generator ends the request and the worker thread
\* that iterates its responses.
WorkerAbort(s) ==
    /\ wstate[s] = "recv"
    /\ gpc[s] = "crashed"
    /\ wstate' = [wstate EXCEPT ![s] = "dead"]
    /\ UNCHANGED <<mergeVars, synVars, extraVars, events, running,
                   stream_data, worker, silence_timer, leaked, gpc, tstate,
                   tjoin, tsess, cpc, accepted, wire, finish_sent, stopped,
                   callbacks>>

(* _input_stream_cycle of session s *)

Goto(s, pc) == gpc' = [gpc EXCEPT ![s] = pc]

\* `while self._running:`
GenLoop(s) ==
    /\ gpc[s] = "loop"
    /\ Goto(s, IF running THEN "wait" ELSE "drain")
    /\ UNCHANGED <<mergeVars, synVars, extraVars, events, running,
                   stream_data, worker, silence_timer, leaked, wstate, tstate,
                   tjoin, tsess, cpc, accepted, wire, finish_sent, stopped,
                   callbacks>>

\* `while self._stream_data.empty(): if self._running: sleep ... else: break`
GenWait(s) ==
    /\ gpc[s] = "wait"
    /\ stream_data # <<>> \/ ~running
    /\ Goto(s, "timer_check")
    /\ UNCHANGED <<mergeVars, synVars, extraVars, events, running,
                   stream_data, worker, silence_timer, leaked, wstate, tstate,
                   tjoin, tsess, cpc, accepted, wire, finish_sent, stopped,
                   callbacks>>

\* `if self._silence_timer is not None and self._silence_timer.is_alive():`
GenTimerCheck(s) ==
    /\ gpc[s] = "timer_check"
    /\ Goto(s, IF IsAlive(silence_timer) THEN "timer_cancel" ELSE "send")
    /\ UNCHANGED <<mergeVars, synVars, extraVars, events, running,
                   stream_data, worker, silence_timer, leaked, wstate, tstate,
                   tjoin, tsess, cpc, accepted, wire, finish_sent, stopped,
                   callbacks>>

\* `self._silence_timer.cancel()`: the attribute is read again, and None has
\* no cancel().
GenTimerCancel(s) ==
    /\ gpc[s] = "timer_cancel"
    /\ Goto(s, IF silence_timer = NoTimer THEN "crashed" ELSE "timer_new")
    /\ silence_timer' = Cancel(silence_timer)
    /\ UNCHANGED <<mergeVars, synVars, extraVars, events, running,
                   stream_data, worker, leaked, wstate, tstate, tjoin, tsess,
                   cpc, accepted, wire, finish_sent, stopped, callbacks>>

\* `self._silence_timer = Timer(...); self._silence_timer.start()`
GenTimerNew(s) ==
    /\ gpc[s] = "timer_new"
    /\ silence_timer' = ArmedTimer(s)
    /\ Drop(silence_timer)
    /\ Goto(s, "send")
    /\ UNCHANGED <<mergeVars, synVars, extraVars, events, running,
                   stream_data, worker, wstate, tstate, tjoin, tsess, cpc,
                   accepted, wire, finish_sent, stopped, callbacks>>

\* `while not self._stream_data.empty():` in the loop; afterwards
\* `if self._recognition_once:` is False and the outer loop goes on.
GenSend(s) ==
    /\ gpc[s] = "send"
    /\ Goto(s, IF stream_data # <<>> THEN "get" ELSE "loop")
    /\ UNCHANGED <<mergeVars, synVars, extraVars, events, running,
                   stream_data, worker, silence_timer, leaked, wstate, tstate,
                   tjoin, tsess, cpc, accepted, wire, finish_sent, stopped,
                   callbacks>>

\* `frame = self._stream_data.get(); yield bytes(frame)`. get() blocks
\* while the queue it finds is empty.
Yield1(s, g, pc) ==
    /\ stream_data' = g.rest
    /\ wire' = [wire EXCEPT ![s] = Append(@, g.frame)]
    /\ Goto(s, pc)

GenGet(s) ==
    /\ gpc[s] = "get"
    /\ stream_data # <<>>
    /\ Yield1(s, Get(stream_data), "send")
    /\ UNCHANGED <<mergeVars, synVars, extraVars, events, running, worker,
                   silence_timer, leaked, wstate, tstate, tjoin, tsess, cpc,
                   accepted, finish_sent, stopped, callbacks>>

\* `if self._recognition_once is False: while not self._stream_data.empty():`
\* When the queue is empty the generator ends, and the transport that was
\* pulling it sends the finish command.
GenDrain(s) ==
    /\ gpc[s] = "drain"
    /\ Goto(s, IF stream_data # <<>> THEN "drain_get" ELSE "done")
    /\ finish_sent' = [finish_sent EXCEPT ![s] = @ \/ stream_data = <<>>]
    /\ UNCHANGED <<mergeVars, synVars, extraVars, events, running,
                   stream_data, worker, silence_timer, leaked, wstate, tstate,
                   tjoin, tsess, cpc, accepted, wire, stopped, callbacks>>

GenDrainGet(s) ==
    /\ gpc[s] = "drain_get"
    /\ stream_data # <<>>
    /\ Yield1(s, Get(stream_data), "drain")
    /\ UNCHANGED <<mergeVars, synVars, extraVars, events, running, worker,
                   silence_timer, leaked, wstate, tstate, tjoin, tsess, cpc,
                   accepted, finish_sent, stopped, callbacks>>

(* _silence_stop_timer in thread t of a timer that fired *)

TimerGoto(t, pc) == tstate' = [tstate EXCEPT ![t] = pc]

\* The interval of the timer self._silence_timer refers to has elapsed: its
\* thread calls the function.
TimerFires ==
    /\ silence_timer.kind = "armed"
    /\ silence_timer' = FiredTimer(NextThread)
    /\ tsess' = [tsess EXCEPT ![NextThread] = silence_timer.id]
    /\ TimerGoto(NextThread, "running")
    /\ events < MaxEvents
    /\ events' = events + 1
    /\ UNCHANGED <<mergeVars, synVars, extraVars, running, stream_data,
                   worker, leaked, wstate, gpc, tjoin, cpc, accepted, wire,
                   finish_sent, stopped, callbacks>>

\* The interval of an armed timer nothing refers to any more has elapsed.
LeakedTimerFires(s) ==
    /\ leaked[s] > 0
    /\ leaked' = [leaked EXCEPT ![s] = @ - 1]
    /\ tsess' = [tsess EXCEPT ![NextThread] = s]
    /\ TimerGoto(NextThread, "running")
    /\ events < MaxEvents
    /\ events' = events + 1
    /\ UNCHANGED <<mergeVars, synVars, extraVars, running, stream_data,
                   worker, silence_timer, wstate, gpc, tjoin, cpc, accepted,
                   wire, finish_sent, stopped, callbacks>>

\* A watchdog that leaves _running alone.
TimerRunningMutant(t) ==
    /\ tstate[t] = "running"
    /\ TimerGoto(t, "cancel")
    /\ UNCHANGED <<mergeVars, synVars, extraVars, events, running,
                   stream_data, worker, silence_timer, leaked, wstate, gpc,
                   tjoin, tsess, cpc, accepted, wire, finish_sent, stopped,
                   callbacks>>

\* `self._running = False`
TimerRunning(t) ==
    /\ tstate[t] = "running"
    /\ running' = FALSE
    /\ TimerGoto(t, "cancel")
    /\ UNCHANGED <<mergeVars, synVars, extraVars, events, stream_data, worker,
                   silence_timer, leaked, wstate, gpc, tjoin, tsess, cpc,
                   accepted, wire, finish_sent, stopped, callbacks>>

\* `if self._silence_timer is not None and self._silence_timer.is_alive():`
\* `    self._silence_timer.cancel()`
TimerCancel(t) ==
    /\ tstate[t] = "cancel"
    /\ silence_timer' = Cancel(silence_timer)
    /\ TimerGoto(t, "clear")
    /\ UNCHANGED <<mergeVars, synVars, extraVars, events, running,
                   stream_data, worker, leaked, wstate, gpc, tjoin, tsess,
                   cpc, accepted, wire, finish_sent, stopped, callbacks>>

\* `self._silence_timer = None`
TimerClear(t) ==
    /\ tstate[t] = "clear"
    /\ silence_timer' = NoTimer
    /\ Drop(silence_timer)
    /\ TimerGoto(t, "join")
    /\ UNCHANGED <<mergeVars, synVars, extraVars, events, running,
                   stream_data, worker, wstate, gpc, tjoin, tsess, cpc,
                   accepted, wire, finish_sent, stopped, callbacks>>

\* `if self._worker is not None and self._worker.is_alive():` picks the
\* thread that `self._worker.join()` waits for.
TimerJoin(t) ==
    /\ tstate[t] = "join"
    /\ IF worker # 0 /\ WorkerAlive(worker)
       THEN tjoin' = [tjoin EXCEPT ![t] = worker] /\ TimerGoto(t, "joining")
       ELSE UNCHANGED tjoin /\ TimerGoto(t, "queue")
    /\ UNCHANGED <<mergeVars, synVars, extraVars, events, running,
                   stream_data, worker, silence_timer, leaked, wstate, gpc,
                   tsess, cpc, accepted, wire, finish_sent, stopped, callbacks>>

\* join() returns when that thread has ended.
TimerJoined(t) ==
    /\ tstate[t] = "joining"
    /\ ~WorkerAlive(tjoin[t])
    /\ TimerGoto(t, "queue")
    /\ UNCHANGED <<mergeVars, synVars, extraVars, events, running,
                   stream_data, worker, silence_timer, leaked, wstate, gpc,
                   tjoin, tsess, cpc, accepted, wire, finish_sent, stopped,
                   callbacks>>

\* `self._stream_data = Queue()`: the function returns, the thread ends.
TimerQueue(t) ==
    /\ tstate[t] = "queue"
    /\ stream_data' = <<>>
    /\ TimerGoto(t, "dead")
    /\ UNCHANGED <<mergeVars, synVars, extraVars, events, running, worker,
                   silence_timer, leaked, wstate, gpc, tjoin, tsess, cpc,
                   accepted, wire, finish_sent, stopped, callbacks>>

(* The recognizer with its threads *)

RecInit == Start({1}) /\ fn = "single"

RecNext ==
    \/ StartCheck \/ StartWorker \/ StartRunning \/ StartTimer
    \/ SendCheck \/ SendPut
    \/ StopCheck \/ StopRunning \/ StopJoin \/ StopQueue
    \/ StopTimerCheck \/ StopCancel
    \/ CallerResume
    \/ TimerFires
    \/ \E s \in Sessions :
           \/ LeakedTimerFires(s)
           \/ ServerError(s) \/ WorkerQueue(s) \/ WorkerOnError(s)
           \/ WorkerOnClose(s) \/ WorkerEvent(s)
           \/ WorkerComplete(s) \/ WorkerAbort(s)
           \/ GenLoop(s) \/ GenWait(s) \/ GenTimerCheck(s)
           \/ GenTimerCancel(s) \/ GenTimerNew(s) \/ GenSend(s)
           \/ GenGet(s) \/ GenDrain(s) \/ GenDrainGet(s)
    \/ \E t \in Timers :
           \/ TimerRunning(t) \/ TimerCancel(t) \/ TimerClear(t)
           \/ TimerJoin(t) \/ TimerJoined(t) \/ TimerQueue(t)

RecSpec == RecInit /\ [][RecNext]_vars

----------------------------------------------------------------------------
(* SpeechSynthesizer in streaming input mode (tts_v2).                     *)
(* Caller threads call streaming_call, streaming_complete,                 *)
(* async_streaming_complete and streaming_cancel; the websocket thread     *)
(* runs on_message for every event of the server; every                    *)
(* async_streaming_complete starts a thread of __waiting_for_complete.     *)
(* A callback is set, so async_call is True. A step is one access to a     *)
(* shared attribute or one envelope sent.                                  *)

\* Position c of caller thread.
To(c, pc) == spc' = [spc EXCEPT ![c] = pc]

\* `self.ws.send(data)` in __send_str: on a connection that is not open it
\* sends nothing and raises, which ends the call.
SendStr(c, envelope, pc) ==
    IF ws = "open"
    THEN envelopes' = Append(envelopes, envelope) /\ To(c, pc)
    ELSE UNCHANGED envelopes /\ To(c, "idle")

\* `self.callback.<name>()`
Notify(names) == synth_callbacks' = synth_callbacks \o names

\* One thread of __waiting_for_complete moves on.
Move(from, to) ==
    /\ waiters[from] > 0
    /\ waiters' = [waiters EXCEPT ![from] = @ - 1, ![to] = @ + 1]

\* Caller c begins a call of a streaming method.
Begin(c) ==
    /\ spc[c] = "idle"
    /\ called < MaxCalls
    /\ called' = called + 1
    /\ cancelled' = IF 0 \in cancelled THEN cancelled \cup {c} ELSE cancelled

(* streaming_call *)

\* `if self._is_first:`
StreamingCall(c) ==
    /\ Begin(c)
    /\ To(c, IF is_first THEN "first" ELSE "submit")
    /\ UNCHANGED <<mergeVars, recVars, ws, start_event, complete_event,
                   task_stopped, is_started, is_first, envelopes,
                   synth_callbacks, server, task_started, waiters, replayVars,
                   callVars, poolVars, clientVars, chatVars>>

\* `self._is_first = False`
ClearFirst(c) ==
    /\ spc[c] = "first"
    /\ is_first' = FALSE
    /\ To(c, "reset")
    /\ UNCHANGED <<mergeVars, recVars, ws, start_event, complete_event,
                   task_stopped, is_started, envelopes, synth_callbacks,
                   server, task_started, waiters, called, cancelled,
                   replayVars, callVars, poolVars, clientVars, chatVars>>

\* __start_stream: `self._stopped.clear()`
StartStreamReset(c) ==
    /\ spc[c] = "reset"
    /\ task_stopped' = FALSE
    /\ To(c, "start_check")
    /\ UNCHANGED <<mergeVars, recVars, ws, start_event, complete_event,
                   is_started, is_first, envelopes, synth_callbacks, server,
                   task_started, waiters, called, cancelled, replayVars,
                   callVars, poolVars, clientVars, chatVars>>

\* `if self._is_started: raise InvalidTask('task has already started.')`
StartStreamCheck(c) ==
    /\ spc[c] = "start_check"
    /\ To(c, IF is_started THEN "idle" ELSE "connect")
    /\ UNCHANGED <<mergeVars, recVars, ws, start_event, complete_event,
                   task_stopped, is_started, is_first, envelopes,
                   synth_callbacks, server, task_started, waiters, called,
                   cancelled, replayVars, callVars, poolVars, clientVars,
                   chatVars>>

\* `if self.ws is None: self.__connect(5)`: the connection is established
\* within the five seconds, or __connect raises TimeoutError and leaves a
\* WebSocketApp that is not connected.
StartStreamConnect(c) ==
    /\ spc[c] = "connect"
    /\ IF ws = "none"
       THEN \E connected \in BOOLEAN :
                /\ ws' = IF connected THEN "open" ELSE "closed"
                /\ To(c, IF connected THEN "start_send" ELSE "idle")
       ELSE UNCHANGED ws /\ To(c, "start_send")
    /\ UNCHANGED <<mergeVars, recVars, start_event, complete_event,
                   task_stopped, is_started, is_first, envelopes,
                   synth_callbacks, server, task_started, waiters, called,
                   cancelled, replayVars, callVars, poolVars, clientVars,
                   chatVars>>

\* `self.__send_str(self.request.getStartRequest(...))`
StartStreamSend(c) ==
    /\ spc[c] = "start_send"
    /\ SendStr(c, "start", "start_wait")
    /\ UNCHANGED <<mergeVars, recVars, ws, start_event, complete_event,
                   task_stopped, is_started, is_first, synth_callbacks,
                   server, task_started, waiters, called, cancelled,
                   replayVars, callVars, poolVars, clientVars, chatVars>>

\* `if not self.start_event.wait(10): raise TimeoutError(...)`: the wait
\* returns when the event is set.
StartStreamWait(c) ==
    /\ spc[c] = "start_wait"
    /\ start_event
    /\ To(c, "started")
    /\ UNCHANGED <<mergeVars, recVars, ws, start_event, complete_event,
                   task_stopped, is_started, is_first, envelopes,
                   synth_callbacks, server, task_started, waiters, called,
                   cancelled, replayVars, callVars, poolVars, clientVars,
                   chatVars>>

\* The ten seconds pass without the event.
StartStreamTimeout(c) ==
    /\ spc[c] = "start_wait"
    /\ ~start_event
    /\ To(c, "idle")
    /\ UNCHANGED <<mergeVars, recVars, ws, start_event, complete_event,
                   task_stopped, is_started, is_first, envelopes,
                   synth_callbacks, server, task_started, waiters, called,
                   cancelled, replayVars, callVars, poolVars, clientVars,
                   chatVars>>

\* `self._is_started = True; self.callback.on_open()`
StartStreamStarted(c) ==
    /\ spc[c] = "started"
    /\ is_started' = TRUE
    /\ Notify(<<"on_open">>)
    /\ To(c, "submit")
    /\ UNCHANGED <<mergeVars, recVars, ws, start_event, complete_event,
                   task_stopped, is_first, envelopes, server, task_started,
                   waiters, called, cancelled, replayVars, callVars, poolVars,
                   clientVars, chatVars>>

\* __submit_text: `if not self._is_started: raise InvalidTask(...)`
SubmitCheckStarted(c) ==
    /\ spc[c] = "submit"
    /\ To(c, IF is_started THEN "submit_stopped" ELSE "idle")
    /\ UNCHANGED <<mergeVars, recVars, ws, start_event, complete_event,
                   task_stopped, is_started, is_first, envelopes,
                   synth_callbacks, server, task_started, waiters, called,
                   cancelled, replayVars, callVars, poolVars, clientVars,
                   chatVars>>

\* `if self._stopped.is_set(): raise InvalidTask(...)`
SubmitCheckStopped(c) ==
    /\ spc[c] = "submit_stopped"
    /\ To(c, IF task_stopped THEN "idle" ELSE "submit_send")
    /\ UNCHANGED <<mergeVars, recVars, ws, start_event, complete_event,
                   task_stopped, is_started, is_first, envelopes,
                   synth_callbacks, server, task_started, waiters, called,
                   cancelled, replayVars, callVars, poolVars, clientVars,
                   chatVars>>

\* `self.__send_str(self.request.getContinueRequest(text))`
SubmitSend(c) ==
    /\ spc[c] = "submit_send"
    /\ SendStr(c, "continue", "idle")
    /\ UNCHANGED <<mergeVars, recVars, ws, start_event, complete_event,
                   task_stopped, is_started, is_first, synth_callbacks,
                   server, task_started, waiters, called, cancelled,
                   replayVars, callVars, poolVars, clientVars, chatVars>>

(* streaming_complete *)

\* `if not self._is_started: raise InvalidTask(...)`
CompleteCheckStarted(c) ==
    /\ Begin(c)
    /\ To(c, IF is_started THEN "complete_stopped" ELSE "idle")
    /\ UNCHANGED <<mergeVars, recVars, ws, start_event, complete_event,
                   task_stopped, is_started, is_first, envelopes,
                   synth_callbacks, server, task_started, waiters, replayVars,
                   callVars, poolVars, clientVars, chatVars>>

\* `if self._stopped.is_set(): raise InvalidTask(...)`
CompleteCheckStopped(c) ==
    /\ spc[c] = "complete_stopped"
    /\ To(c, IF task_stopped THEN "idle" ELSE "complete_send")
    /\ UNCHANGED <<mergeVars, recVars, ws, start_event, complete_event,
                   task_stopped, is_started, is_first, envelopes,
                   synth_callbacks, server, task_started, waiters, called,
                   cancelled, replayVars, callVars, poolVars, clientVars,
                   chatVars>>

\* `self.__send_str(self.request.getFinishRequest())`
CompleteSend(c) ==
    /\ spc[c] = "complete_send"
    /\ SendStr(c, "finish", "complete_wait")
    /\ UNCHANGED <<mergeVars, recVars, ws, start_event, complete_event,
                   task_stopped, is_started, is_first, synth_callbacks,
                   server, task_started, waiters, called, cancelled,
                   replayVars, callVars, poolVars, clientVars, chatVars>>

\* `if not self.complete_event.wait(timeout=...)`: the wait returns when
\* the event is set.
CompleteWait(c) ==
    /\ spc[c] = "complete_wait"
    /\ complete_event
    /\ To(c, "complete_close")
    /\ UNCHANGED <<mergeVars, recVars, ws, start_event, complete_event,
                   task_stopped, is_started, is_first, envelopes,
                   synth_callbacks, server, task_started, waiters, called,
                   cancelled, replayVars, callVars, poolVars, clientVars,
                   chatVars>>

\* The timeout passes without the event: `raise TimeoutError(...)`
CompleteTimeout(c) ==
    /\ spc[c] = "complete_wait"
    /\ ~complete_event
    /\ To(c, "idle")
    /\ UNCHANGED <<mergeVars, recVars, ws, start_event, complete_event,
                   task_stopped, is_started, is_first, envelopes,
                   synth_callbacks, server, task_started, waiters, called,
                   cancelled, replayVars, callVars, poolVars, clientVars,
                   chatVars>>

\* `if self._close_ws_after_use: self.close()`
CompleteClose(c) ==
    /\ spc[c] = "complete_close"
    /\ ws' = "closed"
    /\ To(c, "complete_set")
    /\ UNCHANGED <<mergeVars, recVars, start_event, complete_event,
                   task_stopped, is_started, is_first, envelopes,
                   synth_callbacks, server, task_started, waiters, called,
                   cancelled, replayVars, callVars, poolVars, clientVars,
                   chatVars>>

\* `self._stopped.set()`
CompleteStopped(c) ==
    /\ spc[c] = "complete_set"
    /\ task_stopped' = TRUE
    /\ To(c, "complete_unstart")
    /\ UNCHANGED <<mergeVars, recVars, ws, start_event, complete_event,
                   is_started, is_first, envelopes, synth_callbacks, server,
                   task_started, waiters, called, cancelled, replayVars,
                   callVars, poolVars, clientVars, chatVars>>

\* `self._is_started = False`
CompleteUnstart(c) ==
    /\ spc[c] = "complete_unstart"
    /\ is_started' = FALSE
    /\ To(c, "idle")
    /\ UNCHANGED <<mergeVars, recVars, ws, start_event, complete_event,
                   task_stopped, is_first, envelopes, synth_callbacks, server,
                   task_started, waiters, called, cancelled, replayVars,
                   callVars, poolVars, clientVars, chatVars>>

(* async_streaming_complete and its thread of __waiting_for_complete *)

\* `if not self._is_started: raise InvalidTask(...)`
AsyncCheckStarted(c) ==
    /\ Begin(c)
    /\ To(c, IF is_started THEN "async_stopped" ELSE "idle")
    /\ UNCHANGED <<mergeVars, recVars, ws, start_event, complete_event,
                   task_stopped, is_started, is_first, envelopes,
                   synth_callbacks, server, task_started, waiters, replayVars,
                   callVars, poolVars, clientVars, chatVars>>

\* `if self._stopped.is_set(): raise InvalidTask(...)`
AsyncCheckStopped(c) ==
    /\ spc[c] = "async_stopped"
    /\ To(c, IF task_stopped THEN "idle" ELSE "async_send")
    /\ UNCHANGED <<mergeVars, recVars, ws, start_event, complete_event,
                   task_stopped, is_started, is_first, envelopes,
                   synth_callbacks, server, task_started, waiters, called,
                   cancelled, replayVars, callVars, poolVars, clientVars,
                   chatVars>>

\* `self.__send_str(self.request.getFinishRequest())` and, when it has not
\* raised, `thread = threading.Thread(...); thread.start()`
AsyncSend(c) ==
    /\ spc[c] = "async_send"
    /\ SendStr(c, "finish", "idle")
    /\ waiters' = IF ws = "open" THEN [waiters EXCEPT !["wait"] = @ + 1]
                  ELSE waiters
    /\ UNCHANGED <<mergeVars, recVars, ws, start_event, complete_event,
                   task_stopped, is_started, is_first, synth_callbacks,
                   server, task_started, called, cancelled, replayVars,
                   callVars, poolVars, clientVars, chatVars>>

\* `if not self.complete_event.wait(timeout=timeout / 1000)`: the wait
\* returns when the event is set.
WaiterWait ==
    /\ complete_event
    /\ Move("wait", "close")
    /\ UNCHANGED <<mergeVars, recVars, ws, start_event, complete_event,
                   task_stopped, is_started, is_first, envelopes,
                   synth_callbacks, server, task_started, spc, called,
                   cancelled, replayVars, callVars, poolVars, clientVars,
                   chatVars>>

\* The timeout passes without the event: `raise TimeoutError(...)` ends the
\* thread.
WaiterTimeout ==
    /\ ~complete_event
    /\ Move("wait", "done")
    /\ UNCHANGED <<mergeVars, recVars, ws, start_event, complete_event,
                   task_stopped, is_started, is_first, envelopes,
                   synth_callbacks, server, task_started, spc, called,
                   cancelled, replayVars, callVars, poolVars, clientVars,
                   chatVars>>

\* `if self._close_ws_after_use: self.close()`
WaiterClose ==
    /\ Move("close", "set")
    /\ ws' = "closed"
    /\ UNCHANGED <<mergeVars, recVars, start_event, complete_event,
                   task_stopped, is_started, is_first, envelopes,
                   synth_callbacks, server, task_started, spc, called,
                   cancelled, replayVars, callVars, poolVars, clientVars,
                   chatVars>>

\* `self._stopped.set()`
WaiterStopped ==
    /\ Move("set", "unstart")
    /\ task_stopped' = TRUE
    /\ UNCHANGED <<mergeVars, recVars, ws, start_event, complete_event,
                   is_started, is_first, envelopes, synth_callbacks, server,
                   task_started, spc, called, cancelled, replayVars, callVars,
                   poolVars, clientVars, chatVars>>

\* `self._is_started = False`
WaiterUnstart ==
    /\ Move("unstart", "done")
    /\ is_started' = FALSE
    /\ UNCHANGED <<mergeVars, recVars, ws, start_event, complete_event,
                   task_stopped, is_first, envelopes, synth_callbacks, server,
                   task_started, spc, called, cancelled, replayVars, callVars,
                   poolVars, clientVars, chatVars>>

(* streaming_cancel *)

\* `if not self._is_started: raise InvalidTask(...)`
CancelCheckStarted(c) ==
    /\ Begin(c)
    /\ To(c, IF is_started THEN "cancel_stopped" ELSE "idle")
    /\ UNCHANGED <<mergeVars, recVars, ws, start_event, complete_event,
                   task_stopped, is_started, is_first, envelopes,
                   synth_callbacks, server, task_started, waiters, replayVars,
                   callVars, poolVars, clientVars, chatVars>>

\* `if self._stopped.is_set(): return`
CancelCheckStopped(c) ==
    /\ spc[c] = "cancel_stopped"
    /\ To(c, IF task_stopped THEN "idle" ELSE "cancel_send")
    /\ UNCHANGED <<mergeVars, recVars, ws, start_event, complete_event,
                   task_stopped, is_started, is_first, envelopes,
                   synth_callbacks, server, task_started, waiters, called,
                   cancelled, replayVars, callVars, poolVars, clientVars,
                   chatVars>>

\* `self.__send_str(self.request.getFinishRequest())`
CancelSend(c) ==
    /\ spc[c] = "cancel_send"
    /\ SendStr(c, "finish", "cancel_close")
    /\ UNCHANGED <<mergeVars, recVars, ws, start_event, complete_event,
                   task_stopped, is_started, is_first, synth_callbacks,
                   server, task_started, waiters, called, cancelled,
                   replayVars, callVars, poolVars, clientVars, chatVars>>

\* `self.ws.close()`
CancelClose(c) ==
    /\ spc[c] = "cancel_close"
    /\ ws' = "closed"
    /\ To(c, "cancel_start")
    /\ UNCHANGED <<mergeVars, recVars, start_event, complete_event,
                   task_stopped, is_started, is_first, envelopes,
                   synth_callbacks, server, task_started, waiters, called,
                   cancelled, replayVars, callVars, poolVars, clientVars,
                   chatVars>>

\* `self.start_event.set()`
CancelSetStart(c) ==
    /\ spc[c] = "cancel_start"
    /\ start_event' = TRUE
    /\ To(c, "cancel_complete")
    /\ UNCHANGED <<mergeVars, recVars, ws, complete_event, task_stopped,
                   is_started, is_first, envelopes, synth_callbacks, server,
                   task_started, waiters, called, cancelled, replayVars,
                   callVars, poolVars, clientVars, chatVars>>

\* `self.complete_event.set()`
CancelSetComplete(c) ==
    /\ spc[c] = "cancel_complete"
    /\ complete_event' = TRUE
    /\ cancelled' = cancelled \cup {0}
    /\ To(c, "idle")
    /\ UNCHANGED <<mergeVars, recVars, ws, start_event, task_stopped,
                   is_started, is_first, envelopes, synth_callbacks, server,
                   task_started, waiters, called, replayVars, callVars,
                   poolVars, clientVars, chatVars>>

(* on_message in the websocket thread; the server's task is in state       *)
(* `server` and its events arrive while the connection is open             *)

\* The server accepts the start envelope. `if EventType.STARTED == event:`
OnStarted ==
    /\ ws = "open"
    /\ server = "idle"
    /\ "start" \in Range(envelopes)
    /\ server' = "started"
    /\ task_started' = TRUE
    /\ start_event' = TRUE
    /\ UNCHANGED <<mergeVars, recVars, ws, complete_event, task_stopped,
                   is_started, is_first, envelopes, synth_callbacks, spc,
                   waiters, called, cancelled, replayVars, callVars, poolVars,
                   clientVars, chatVars>>

\* The server has the finish envelope of a started task and ends it.
\* `elif EventType.FINISHED == event:`
OnFinished ==
    /\ ws = "open"
    /\ server = "started"
    /\ "finish" \in Range(envelopes)
    /\ server' = "finished"
    /\ complete_event' = TRUE
    /\ Notify(<<"on_complete", "on_close">>)
    /\ UNCHANGED <<mergeVars, recVars, ws, start_event, task_stopped,
                   is_started, is_first, envelopes, task_started, spc,
                   waiters, called, cancelled, replayVars, callVars, poolVars,
                   clientVars, chatVars>>

\* The server rejects the start envelope or fails the started task.
\* `elif EventType.FAILED == event:`
OnFailed ==
    /\ ws = "open"
    /\ server \in {"idle", "started"}
    /\ "start" \in Range(envelopes)
    /\ server' = "failed"
    /\ start_event' = TRUE
    /\ complete_event' = TRUE
    /\ Notify(<<"on_error", "on_close">>)
    /\ UNCHANGED <<mergeVars, recVars, ws, task_stopped, is_started, is_first,
                   envelopes, task_started, spc, waiters, called, cancelled,
                   replayVars, callVars, poolVars, clientVars, chatVars>>

(* The synthesizer with its threads *)

SynInit == Start({1}) /\ fn = "single"

SynNext ==
    \/ \E c \in Callers :
           \/ StreamingCall(c) \/ ClearFirst(c)
           \/ StartStreamReset(c) \/ StartStreamCheck(c)
           \/ StartStreamConnect(c) \/ StartStreamSend(c)
           \/ StartStreamWait(c) \/ StartStreamTimeout(c)
           \/ StartStreamStarted(c)
           \/ SubmitCheckStarted(c) \/ SubmitCheckStopped(c)
           \/ SubmitSend(c)
           \/ CompleteCheckStarted(c) \/ CompleteCheckStopped(c)
           \/ CompleteSend(c) \/ CompleteWait(c) \/ CompleteTimeout(c)
           \/ CompleteClose(c) \/ CompleteStopped(c) \/ CompleteUnstart(c)
           \/ AsyncCheckStarted(c) \/ AsyncCheckStopped(c) \/ AsyncSend(c)
           \/ CancelCheckStarted(c) \/ CancelCheckStopped(c)
           \/ CancelSend(c) \/ CancelClose(c) \/ CancelSetStart(c)
           \/ CancelSetComplete(c)
    \/ WaiterWait \/ WaiterTimeout \/ WaiterClose \/ WaiterStopped
    \/ WaiterUnstart
    \/ OnStarted \/ OnFinished \/ OnFailed

SynSpec == SynInit /\ [][SynNext]_vars

----------------------------------------------------------------------------
(* Replay: the fragments one accumulator has merged are merged again, in   *)
(* the same order, into a second accumulator that starts empty.  Every     *)
(* merge call gets the fragment as the wire carried it (the call changes   *)
(* the response object it is given in place).                              *)

\* A message whose content is a list of parts, each part {'text': ...}.
PartsMessage(parts) ==
    [ContentMessage("") EXCEPT !.content = ListContent(parts)]

\* Fragments of one choice each: string deltas, lists of parts, the finish
\* with its usage, tool-call deltas.
Fragments(nn) ==
    UNION {
        {Fragment(<<Choice(idx, ContentMessage(d), "null")>>, NoUsage) :
            d \in {"a", "b"}}
        \cup {Fragment(<<Choice(idx, PartsMessage(p), "null")>>, NoUsage) :
            p \in {<<>>, <<"a">>, <<"b">>, <<"a", "b">>}}
        \cup {Fragment(<<Choice(idx, ContentMessage(""), "stop")>>,
                       WireUsage(MaxOutputTokens))}
        \cup {Fragment(<<Choice(idx, ToolCallMessage(<<tc>>), "null")>>, NoUsage) :
            tc \in {NameDelta, OpenDelta}}
        : idx \in 0..(nn - 1)}

\* History: the text deltas of a choice concatenated per position of the
\* content list.
PartsAfter(h, frag) ==
    LET c == frag.choices[1]
        p == c.message.content.parts
        old == h[c.index]
    IN  [h EXCEPT ![c.index] =
            [i \in 1..Max(Len(old), Len(p)) |->
                (IF i <= Len(old) THEN old[i] ELSE "")
                    \o (IF i <= Len(p) THEN p[i] ELSE "")]]

\* What one merge call gives back to the stream wrapper.
Outcome(m) == [result |-> m.result, yielded |-> m.responses]

\* The tool_calls a yielded choice shows to a caller who has kept the
\* response: `choice.message.tool_calls = accumulated_data[choice_idx]
\* ['tool_calls']` binds the message to the list object of the accumulator
\* entry, which is made once per entry and changed in place by every later
\* call; a message the merge left without tool calls keeps its own list.
HeldCalls(c) ==
    IF "tool_calls" \in c.message.keys /\ c.message.tool_calls # <<>>
    THEN accumulated_data.entries[c.index].tool_calls
    ELSE c.message.tool_calls

\* The first accumulator merges one more fragment.
Feed ==
    /\ count < MaxReplay
    /\ count' = count + 1
    /\ \E frag \in Fragments(n) :
         LET m == Merge(fn, n, accumulated_data, frag)
         IN  /\ Record(m, frag)
             /\ tape' = Append(tape, [fragment |-> frag, outcome |-> Outcome(m)])
             /\ part_deltas' = PartsAfter(part_deltas, frag)
    /\ UNCHANGED <<recVars, synVars, replay_data, replay_out, callVars,
                   poolVars, clientVars, chatVars>>

\* The second accumulator merges the next fragment of the tape.
Replay ==
    /\ Len(replay_out) < Len(tape)
    /\ LET m == Merge(fn, n, replay_data, tape[Len(replay_out) + 1].fragment)
       IN  /\ replay_data' = m.data
           /\ replay_out' = Append(replay_out, Outcome(m))
    /\ UNCHANGED <<mergeVars, recVars, synVars, tape, part_deltas, callVars,
                   poolVars, clientVars, chatVars>>

ReplaySpec == Init /\ [][Feed \/ Replay]_vars

----------------------------------------------------------------------------
(* SpeechSynthesizer.call without a callback: __update_params has set      *)
(* async_call to False and call() puts a ResultCallback, whose methods do  *)
(* nothing, in place of the missing callback.  The caller thread is in     *)
(* call(); the websocket thread runs on_message.                           *)

\* `self.__send_str(...)` inside call(): an exception ends the call.
Send(envelope, pc) ==
    IF ws = "open"
    THEN envelopes' = Append(envelopes, envelope) /\ call_pc' = pc
    ELSE UNCHANGED envelopes /\ call_pc' = "raised"

\* call() enters __start_stream: `self._stopped.clear()`, the check of
\* _is_started, `if self.ws is None: self.__connect(5)`, the start envelope.
CallStart ==
    /\ call_pc \in {"idle", "returned", "raised"}
    /\ called < MaxCalls
    /\ called' = called + 1
    /\ task_stopped' = FALSE
    /\ audio_data' = 0
    /\ IF is_started
       THEN call_pc' = "raised" /\ UNCHANGED <<ws, envelopes>>
       ELSE \E connected \in BOOLEAN :
                /\ ws' = IF ws = "none"
                         THEN IF connected THEN "open" ELSE "closed"
                         ELSE ws
                /\ IF ws' = "open"
                   THEN /\ envelopes' = Append(envelopes, "start")
                        /\ call_pc' = "start_wait"
                   ELSE UNCHANGED envelopes /\ call_pc' = "raised"
    /\ UNCHANGED <<mergeVars, recVars, start_event, complete_event,
                   is_started, is_first, synth_callbacks, server,
                   task_started, spc, waiters, cancelled, replayVars,
                   poolVars, clientVars, chatVars>>

\* `if not self.start_event.wait(10): raise TimeoutError(...)`
CallStartTimeout ==
    /\ call_pc = "start_wait"
    /\ ~start_event
    /\ call_pc' = "raised"
    /\ UNCHANGED <<mergeVars, recVars, ws, start_event, complete_event,
                   task_stopped, is_started, is_first, envelopes,
                   synth_callbacks, server, task_started, spc, waiters,
                   called, cancelled, replayVars, audio_data, poolVars,
                   clientVars, chatVars>>

\* The wait returns: `self._is_started = True; self.callback.on_open()`
CallStarted ==
    /\ call_pc = "start_wait"
    /\ start_event
    /\ is_started' = TRUE
    /\ Notify(<<"on_open">>)
    /\ call_pc' = "submit"
    /\ UNCHANGED <<mergeVars, recVars, ws, start_event, complete_event,
                   task_stopped, is_first, envelopes, server, task_started,
                   spc, waiters, called, cancelled, replayVars, audio_data,
                   poolVars, clientVars, chatVars>>

\* `self.__submit_text(text)`
CallSubmit ==
    /\ call_pc = "submit"
    /\ IF ~is_started \/ task_stopped
       THEN call_pc' = "raised" /\ UNCHANGED envelopes
       ELSE Send("continue", "complete")
    /\ UNCHANGED <<mergeVars, recVars, ws, start_event, complete_event,
                   task_stopped, is_started, is_first, synth_callbacks,
                   server, task_started, spc, waiters, called, cancelled,
                   replayVars, audio_data, poolVars, clientVars, chatVars>>

\* `self.streaming_complete(timeout_millis)` up to the finish envelope.
CallComplete ==
    /\ call_pc = "complete"
    /\ IF ~is_started \/ task_stopped
       THEN call_pc' = "raised" /\ UNCHANGED envelopes
       ELSE Send("finish", "complete_wait")
    /\ UNCHANGED <<mergeVars, recVars, ws, start_event, complete_event,
                   task_stopped, is_started, is_first, synth_callbacks,
                   server, task_started, spc, waiters, called, cancelled,
                   replayVars, audio_data, poolVars, clientVars, chatVars>>

\* A timeout_millis greater than zero passes without complete_event:
\* `raise TimeoutError(...)`
CallCompleteTimeout ==
    /\ call_pc = "complete_wait"
    /\ ~complete_event
    /\ call_pc' = "raised"
    /\ UNCHANGED <<mergeVars, recVars, ws, start_event, complete_event,
                   task_stopped, is_started, is_first, envelopes,
                   synth_callbacks, server, task_started, spc, waiters,
                   called, cancelled, replayVars, audio_data, poolVars,
                   clientVars, chatVars>>

\* complete_event is set: `self.close(); self._stopped.set();`
\* `self._is_started = False`, and call() does `return self._audio_data`.
CallReturn ==
    /\ call_pc = "complete_wait"
    /\ complete_event
    /\ ws' = "closed"
    /\ task_stopped' = TRUE
    /\ is_started' = FALSE
    /\ call_pc' = "returned"
    /\ UNCHANGED <<mergeVars, recVars, start_event, complete_event, is_first,
                   envelopes, synth_callbacks, server, task_started, spc,
                   waiters, called, cancelled, replayVars, audio_data,
                   poolVars, clientVars, chatVars>>

\* on_message with a binary message: `if not self.async_call:` the audio is
\* appended to self._audio_data.
OnAudio ==
    /\ ws = "open"
    /\ server = "started"
    /\ audio_data < MaxAudio
    /\ audio_data' = audio_data + 1
    /\ Notify(<<"on_data">>)
    /\ UNCHANGED <<mergeVars, recVars, ws, start_event, complete_event,
                   task_stopped, is_started, is_first, envelopes, server,
                   task_started, spc, waiters, called, cancelled, replayVars,
                   call_pc, poolVars, clientVars, chatVars>>

\* on_message with the task-failed event when async_call is False:
\* `self.start_event.set(); self.complete_event.set()` and
\* `raise Exception(f'TaskFailed: {message}')` in the websocket thread, whose
\* run_forever may or may not go on with the connection afterwards.
OnFailedBlocking ==
    /\ ws = "open"
    /\ server \in {"idle", "started"}
    /\ "start" \in Range(envelopes)
    /\ server' = "failed"
    /\ start_event' = TRUE
    /\ complete_event' = TRUE
    /\ ws' \in {"open", "closed"}
    /\ UNCHANGED <<mergeVars, recVars, task_stopped, is_started, is_first,
                   envelopes, synth_callbacks, task_started, spc, waiters,
                   called, cancelled, replayVars, call_pc, audio_data,
                   poolVars, clientVars, chatVars>>

CallSpec ==
    /\ SynInit
    /\ [][\/ CallStart \/ CallStartTimeout \/ CallStarted \/ CallSubmit
          \/ CallComplete \/ CallCompleteTimeout \/ CallReturn
          \/ OnStarted \/ OnFinished \/ OnAudio \/ OnFailedBlocking]_vars

----------------------------------------------------------------------------
(* SpeechSynthesizerObjectPool: borrow_synthesizer and return_synthesizer  *)
(* of the application's threads and the __auto_reconnect thread.  The      *)
(* blocks under `with self._lock:` are one step each.                      *)

\* Position of the object with this id in a list of PoolObjects, 0 if absent.
Position(objects, id) ==
    IF \E i \in 1..Len(objects) : objects[i].id = id
    THEN CHOOSE i \in 1..Len(objects) : objects[i].id = id
    ELSE 0

\* list.pop(idx)
Pop(list, idx) == SubSeq(list, 1, idx - 1) \o SubSeq(list, idx + 1, Len(list))

\* `poolObject.connect_time == -1`
NeedsConnect(o) == o.connect_time = "unset"

\* `(not poolObject.synthesizer.__is_connected()) or`
\* `(current_time - poolObject.connect_time > self.__get_reconnect_interval())`
NeedsRenew(o) == ~NeedsConnect(o) /\ (~o.connected \/ o.connect_time = "old")

\* A scan that leaves the flags of the objects it selects as they are.
MarkMutant(flags, objects) == flags

\* `self._avaliable[idx] = False` for every object the scan selects.
Mark(flags, objects) ==
    [i \in 1..Len(flags) |->
        IF NeedsConnect(objects[i]) \/ NeedsRenew(objects[i]) THEN FALSE
        ELSE flags[i]]

\* Ids of the objects of a list, in order.
Ids(objects) == [i \in 1..Len(objects) |-> objects[i].id]

\* The first block under the lock: objects_need_to_connect and
\* objects_need_to_renew are filled and the flags of their objects cleared.
Scan ==
    /\ mpc = "scan"
    /\ ~pool_stop
    /\ pool_ops < MaxPoolOps
    /\ pool_ops' = pool_ops + 1
    /\ avaliable' = Mark(avaliable, pool)
    /\ selected' = Ids(SelectSeq(pool, NeedsConnect))
                       \o Ids(SelectSeq(pool, NeedsRenew))
    /\ mpc' = "refresh"
    /\ UNCHANGED <<mergeVars, recVars, synVars, replayVars, callVars, pool,
                   borrowed_object_num, held, lent_during, made,
                   remain_object_num, pool_stop, clientVars, chatVars>>

\* The object as one pass of a refresh loop leaves it: a renewal gives it a
\* new synthesizer (numbered s), and __connect either connects within its
\* timeout and connect_time is set, or raises.
Refreshed(o, s, connected) ==
    PoolObject(o.id, IF NeedsConnect(o) THEN o.synthesizer ELSE s, connected,
               IF connected THEN "fresh" ELSE o.connect_time)

\* `if self._stop: return` in the first block under the lock.
ScanStopped ==
    /\ mpc = "scan"
    /\ pool_stop
    /\ mpc' = "stopped"
    /\ UNCHANGED <<mergeVars, recVars, synVars, replayVars, callVars, pool,
                   avaliable, borrowed_object_num, selected, held,
                   lent_during, made, pool_ops, remain_object_num, pool_stop,
                   clientVars, chatVars>>

\* One pass of `for poolObject in objects_need_to_connect:` or of
\* `for poolObject in objects_need_to_renew:`. A TimeoutError of __connect
\* ends the thread.
Refresh ==
    /\ mpc = "refresh"
    /\ selected # <<>>
    /\ made' = made + 1
    /\ \E connected \in BOOLEAN :
         LET p == Position(pool, Head(selected))
         IN  /\ pool' = IF p = 0 THEN pool
                        ELSE [pool EXCEPT ![p] = Refreshed(@, made + 1, connected)]
             /\ selected' = IF connected THEN Tail(selected) ELSE selected
             /\ mpc' = IF connected THEN "refresh" ELSE "dead"
    /\ UNCHANGED <<mergeVars, recVars, synVars, replayVars, callVars,
                   avaliable, borrowed_object_num, held, lent_during,
                   pool_ops, remain_object_num, pool_stop, clientVars,
                   chatVars>>

\* The second block under the lock: every flag is set, then `time.sleep(1)`.
Release ==
    /\ mpc = "refresh"
    /\ selected = <<>>
    /\ avaliable' = [i \in 1..Len(avaliable) |-> TRUE]
    /\ mpc' = "scan"
    /\ UNCHANGED <<mergeVars, recVars, synVars, replayVars, callVars, pool,
                   borrowed_object_num, selected, held, lent_during, made,
                   pool_ops, remain_object_num, pool_stop, clientVars,
                   chatVars>>

\* Positions borrow_synthesizer may take its synthesizer from.
Ready == {i \in 1..Len(pool) : avaliable[i] /\ pool[i].connected}

\* borrow_synthesizer: the first position whose flag is set and whose
\* synthesizer is connected is popped; with none, a new synthesizer is made.
Borrow ==
    /\ pool_ops < MaxPoolOps
    /\ pool_ops' = pool_ops + 1
    /\ IF Ready # {}
       THEN LET i == CHOOSE i \in Ready : \A j \in Ready : i <= j
                s == pool[i].synthesizer
            IN  /\ held' = held \cup {s}
                /\ lent_during' = IF selected # <<>> THEN lent_during \cup {s}
                                  ELSE lent_during
                /\ borrowed_object_num' = borrowed_object_num + 1
                /\ remain_object_num' = remain_object_num - 1
                /\ pool' = Pop(pool, i)
                /\ avaliable' = Pop(avaliable, i)
                /\ UNCHANGED made
       ELSE /\ held' = held \cup {made + 1}
            /\ made' = made + 1
            /\ UNCHANGED <<pool, avaliable, borrowed_object_num,
                           remain_object_num, lent_during>>
    /\ UNCHANGED <<mergeVars, recVars, synVars, replayVars, callVars, mpc,
                   selected, pool_stop, clientVars, chatVars>>

\* A return_synthesizer that takes every synthesizer.
FullMutant(borrowed) == FALSE

\* `if self._borrowed_object_num <= 0:`, the pool is full.
Full(borrowed) == borrowed <= 0

\* return_synthesizer of a synthesizer the application holds, whose socket
\* is connected or not: a new PoolObject is appended with its flag set,
\* unless no object counts as borrowed.
Return ==
    /\ pool_ops < MaxPoolOps
    /\ pool_ops' = pool_ops + 1
    /\ \E s \in held, connected \in BOOLEAN :
         /\ held' = held \ {s}
         /\ IF Full(borrowed_object_num)
            THEN UNCHANGED <<pool, avaliable, borrowed_object_num,
                             remain_object_num, made>>
            ELSE /\ pool' = Append(pool, PoolObject(made + 1, s, connected, "fresh"))
                 /\ avaliable' = Append(avaliable, TRUE)
                 /\ borrowed_object_num' = borrowed_object_num - 1
                 /\ remain_object_num' = remain_object_num + 1
                 /\ made' = made + 1
    /\ UNCHANGED <<mergeVars, recVars, synVars, replayVars, callVars, mpc,
                   selected, lent_during, pool_stop, clientVars, chatVars>>

\* shutdown: under the lock _stop is set and _pool replaced by an empty
\* list; _avaliable and the counters are left as they are.
Shutdown ==
    /\ pool_ops < MaxPoolOps
    /\ pool_ops' = pool_ops + 1
    /\ pool_stop' = TRUE
    /\ pool' = <<>>
    /\ UNCHANGED <<mergeVars, recVars, synVars, replayVars, callVars,
                   avaliable, borrowed_object_num, mpc, selected, held,
                   lent_during, made, remain_object_num, clientVars, chatVars>>

\* The connection of a pooled synthesizer drops.
Disconnect ==
    /\ pool_ops < MaxPoolOps
    /\ pool_ops' = pool_ops + 1
    /\ \E i \in 1..Len(pool) :
         /\ pool[i].connected
         /\ pool' = [pool EXCEPT ![i].connected = FALSE]
    /\ UNCHANGED <<mergeVars, recVars, synVars, replayVars, callVars,
                   avaliable, borrowed_object_num, mpc, selected, held,
                   lent_during, made, remain_object_num, pool_stop,
                   clientVars, chatVars>>

\* The reconnect interval of a pooled object passes.
Expire ==
    /\ pool_ops < MaxPoolOps
    /\ pool_ops' = pool_ops + 1
    /\ \E i \in 1..Len(pool) :
         /\ pool[i].connect_time = "fresh"
         /\ pool' = [pool EXCEPT ![i].connect_time = "old"]
    /\ UNCHANGED <<mergeVars, recVars, synVars, replayVars, callVars,
                   avaliable, borrowed_object_num, mpc, selected, held,
                   lent_during, made, remain_object_num, pool_stop,
                   clientVars, chatVars>>

PoolSpec ==
    /\ SynInit
    /\ [][\/ Scan \/ ScanStopped \/ Refresh \/ Release \/ Borrow \/ Return
          \/ Shutdown \/ Disconnect \/ Expire]_vars

----------------------------------------------------------------------------
(* Realtime sessions: MultiModalDialog and TingWuRealtime with their       *)
(* _Request envelopes and response handlers, OmniRealtimeConversation and  *)
(* QwenTtsRealtime, and SpeechSynthesizer.close.  A call of the            *)
(* application is one step, and so is one run of the message handler in    *)
(* the websocket thread; the application calls one method at a time.       *)

Kinds == {"dialog", "tingwu", "omni", "qwen_tts", "synthesizer"}

\* The classes whose close() and stop() test self.ws before they use it.
Guarded == {"dialog", "tingwu"}

\* The values of DialogState.
DialogStates == {"Idle", "Listening", "Thinking", "Responding"}

\* State names a DialogStateChanged event of the server may carry.
StateNames == DialogStates \cup {"idle", "Speaking"}

\* Events of the text frames a session of each class is sent.
Events(k) ==
    CASE k = "dialog" -> {"task-failed", "status-400", "not-json", "Stopped",
                          "DialogStateChanged"}
      [] k = "tingwu" -> {"task-failed", "not-json", "speech-end"}
      [] OTHER -> {"not-json", "session.created"}

\* One more call or frame.
Occur(op, event, state) ==
    /\ client_ops < MaxClientOps
    /\ client_ops' = client_ops + 1
    /\ last' = Event(op, event, state)

\* __init__: MultiModalDialog, OmniRealtimeConversation, QwenTtsRealtime and
\* SpeechSynthesizer set self.ws to None; TingWuRealtime assigns self.ws
\* only in _connect.
New(k) ==
    /\ kind = "none"
    /\ kind' = k
    /\ client_ws' = IF k = "tingwu" THEN "absent" ELSE "None"
    /\ UNCHANGED <<mergeVars, recVars, synVars, replayVars, callVars,
                   poolVars, task_id, headers, current_state,
                   client_callbacks, call_outcome, handler_outcome, last,
                   client_ops, uuids, chatVars>>

\* A task_id that is drawn anew for every header.
TaskIdMutant(id, uuid) == uuid

\* `if self.task_id is None: self.task_id = get_random_uuid()`
TaskId(id, uuid) == IF id = 0 THEN uuid ELSE id

\* DashHeader(action=action, task_id=self.task_id).to_dict()
Header(action, id) == [action |-> action, task_id |-> id, request_id |-> id]

\* _get_dash_request_header, which every generate_* method of _Request calls.
Generate(action) ==
    /\ task_id' = TaskId(task_id, uuids + 1)
    /\ uuids' = IF task_id' = task_id THEN uuids ELSE uuids + 1
    /\ headers' = Append(headers, Header(action, task_id'))

\* self.ws.send(...) of _send_text_frame.
SendOutcome(app) ==
    CASE app = "open" -> "returned"
      [] app = "closed" -> "WebSocketConnectionClosedException"
      [] OTHER -> "AttributeError"

\* TingWuRealtime._running, which _on_open sets after callback.on_open().
Running == kind = "tingwu" /\ "on_open" \in Range(client_callbacks)

\* start() of MultiModalDialog and TingWuRealtime: _connect waits up to five
\* seconds for the connection and goes on in either case; the start request
\* is generated and sent.
ClientStart ==
    /\ kind \in Guarded
    /\ Occur("start", "", "")
    /\ IF Running
       THEN /\ call_outcome' = "InvalidParameter"
            /\ UNCHANGED <<client_ws, task_id, headers, uuids, client_callbacks>>
       ELSE \E connected \in BOOLEAN :
              /\ client_ws' = IF connected THEN "open" ELSE "closed"
              /\ client_callbacks' =
                   IF connected THEN Append(client_callbacks, "on_open")
                   ELSE client_callbacks
              /\ Generate("run-task")
              /\ call_outcome' = SendOutcome(client_ws')
    /\ UNCHANGED <<mergeVars, recVars, synVars, replayVars, callVars,
                   poolVars, kind, current_state, handler_outcome, chatVars>>

\* A connect that returns whether or not the socket is connected.
ConnectOutcomeMutant(connected) == "returned"

\* `if not (self.ws.sock and self.ws.sock.connected): raise TimeoutError(...)`
ConnectOutcome(connected) == IF connected THEN "returned" ELSE "TimeoutError"

\* connect() of OmniRealtimeConversation and QwenTtsRealtime.
ClientConnect ==
    /\ kind \in {"omni", "qwen_tts"}
    /\ Occur("connect", "", "")
    /\ \E connected \in BOOLEAN :
         /\ client_ws' = IF connected THEN "open" ELSE "closed"
         /\ call_outcome' = ConnectOutcome(connected)
         /\ client_callbacks' =
              IF call_outcome' = "returned" THEN Append(client_callbacks, "on_open")
              ELSE client_callbacks
    /\ UNCHANGED <<mergeVars, recVars, synVars, replayVars, callVars,
                   poolVars, kind, task_id, headers, current_state,
                   handler_outcome, uuids, chatVars>>

\* start_speech, stop_speech, interrupt, request_to_respond, update_info and
\* the other directives of MultiModalDialog: the envelope is generated, then
\* sent.
ClientDirective ==
    /\ kind = "dialog"
    /\ Occur("directive", "", "")
    /\ Generate("continue-task")
    /\ call_outcome' = SendOutcome(client_ws)
    /\ UNCHANGED <<mergeVars, recVars, synVars, replayVars, callVars,
                   poolVars, kind, client_ws, current_state, client_callbacks,
                   handler_outcome, chatVars>>

\* TingWuRealtime.send_audio_frame: InvalidParameter while _running is
\* False, otherwise the frame goes to __send_binary_frame.
ClientSendAudio ==
    /\ kind = "tingwu"
    /\ Occur("send_audio_frame", "", "")
    /\ call_outcome' = IF Running THEN SendOutcome(client_ws)
                       ELSE "InvalidParameter"
    /\ UNCHANGED <<mergeVars, recVars, synVars, replayVars, callVars,
                   poolVars, kind, client_ws, task_id, headers, current_state,
                   client_callbacks, handler_outcome, uuids, chatVars>>

\* `self.ws is None or not self.ws.sock or not self.ws.sock.connected`
NotConnected(app) == app \in {"None", "closed"}

\* stop() of MultiModalDialog and TingWuRealtime.
ClientStop ==
    /\ kind \in Guarded
    /\ Occur("stop", "", "")
    /\ CASE client_ws = "absent" ->
              /\ call_outcome' = "AttributeError"
              /\ UNCHANGED <<task_id, headers, uuids, client_callbacks>>
         [] NotConnected(client_ws) ->
              /\ client_callbacks' = Append(client_callbacks, "on_close")
              /\ call_outcome' = "returned"
              /\ UNCHANGED <<task_id, headers, uuids>>
         [] OTHER ->
              /\ Generate("finish-task")
              /\ call_outcome' = "returned"
              /\ UNCHANGED client_callbacks
    /\ UNCHANGED <<mergeVars, recVars, synVars, replayVars, callVars,
                   poolVars, kind, client_ws, current_state, handler_outcome,
                   chatVars>>

\* How close() ends for a session of class k whose self.ws is app.
CloseOutcome(k, app) ==
    CASE app = "absent" -> "AttributeError"
      [] app = "None" /\ k \notin Guarded -> "AttributeError"
      [] OTHER -> "returned"

\* close(): `self.ws.close()`, in MultiModalDialog and TingWuRealtime after
\* the test of self.ws. An open connection is closed and _on_close runs.
ClientClose ==
    /\ kind \in Kinds
    /\ Occur("close", "", "")
    /\ call_outcome' = CloseOutcome(kind, client_ws)
    /\ client_ws' = IF client_ws = "open" THEN "closed" ELSE client_ws
    /\ client_callbacks' =
         IF client_ws = "open" THEN Append(client_callbacks, "on_close")
         ELSE client_callbacks
    /\ UNCHANGED <<mergeVars, recVars, synVars, replayVars, callVars,
                   poolVars, kind, task_id, headers, current_state,
                   handler_outcome, uuids, chatVars>>

\* StateMachine.change_state: the new current_state and whether ValueError
\* is raised.
ChangeStateMutant(current, new_state) == [state |-> new_state, raised |-> FALSE]

ChangeState(current, new_state) ==
    IF new_state \in DialogStates
    THEN [state |-> new_state, raised |-> FALSE]
    ELSE [state |-> current, raised |-> TRUE]

\* What a run of the handler does to the session: the callbacks it invokes,
\* the exception it raises ("returned" for none), whether it closes the
\* connection through close_callback, and current_state after it.
Handling(invoked, outcome, closes, state) ==
    [called |-> invoked, outcome |-> outcome, closes |-> closes, state |-> state]

\* _Response.handle_text_response and _handle_text_response_in_conversation.
HandleDialog(event, state) ==
    CASE event \in {"task-failed", "status-400"} ->
           Handling(<<"on_error">>, "returned", FALSE, current_state)
      [] event = "not-json" ->
           Handling(<<>>, "returned", FALSE, current_state)
      [] event = "Stopped" ->
           Handling(<<"on_stopped">>, "returned", TRUE, current_state)
      [] OTHER ->
           LET changed == ChangeState(current_state, state)
           IN  IF changed.raised
               THEN Handling(<<>>, "ValueError", FALSE, changed.state)
               ELSE Handling(<<"on_state_changed">>, "returned", FALSE,
                             changed.state)

\* _TingWuResponse.handle_text_response and
\* _handle_tingwu_agent_text_response.
HandleTingWu(event) ==
    CASE event = "task-failed" ->
           Handling(<<"on_error">>, "returned", FALSE, current_state)
      [] event = "not-json" ->
           Handling(<<>>, "returned", FALSE, current_state)
      [] OTHER ->
           Handling(<<"on_stopped">>, "returned", TRUE, current_state)

\* on_message of OmniRealtimeConversation and QwenTtsRealtime.
HandleRealtime(event) ==
    IF event = "not-json"
    THEN Handling(<<>>, "Exception", FALSE, current_state)
    ELSE Handling(<<"on_event">>, "returned", FALSE, current_state)

Handle(event, state) ==
    CASE kind = "dialog" -> HandleDialog(event, state)
      [] kind = "tingwu" -> HandleTingWu(event)
      [] OTHER -> HandleRealtime(event)

\* What the websocket library may do with an exception of the handler: go
\* on, hand it to the session's error handler, which in MultiModalDialog and
\* TingWuRealtime calls callback.on_error, or tear the connection down.
AfterRaise ==
    {[ws |-> "open", called |-> <<>>], [ws |-> "closed", called |-> <<"on_close">>]}
    \cup (IF kind \in Guarded THEN {[ws |-> "open", called |-> <<"on_error">>]}
          ELSE {})

\* A text frame arrives and _on_message runs.
ClientMessage ==
    /\ kind \in Kinds \ {"synthesizer"}
    /\ client_ws = "open"
    /\ \E event \in Events(kind),
          state \in StateNames :
         /\ (event # "DialogStateChanged" => state = "Idle")
         /\ Occur("message", event, state)
         /\ LET h == Handle(event, state)
            IN  /\ handler_outcome' = h.outcome
                /\ current_state' = h.state
                /\ IF h.outcome = "returned"
                   THEN /\ client_ws' = IF h.closes THEN "closed" ELSE "open"
                        /\ client_callbacks' =
                             client_callbacks \o h.called
                             \o (IF h.closes THEN <<"on_close">> ELSE <<>>)
                   ELSE \E a \in AfterRaise :
                          /\ client_ws' = a.ws
                          /\ client_callbacks' =
                               client_callbacks \o h.called \o a.called
    /\ UNCHANGED <<mergeVars, recVars, synVars, replayVars, callVars,
                   poolVars, kind, task_id, headers, call_outcome, uuids,
                   chatVars>>

\* The server or the network ends the connection and _on_close runs.
ServerClose ==
    /\ kind \in Kinds
    /\ client_ws = "open"
    /\ Occur("dropped", "", "")
    /\ client_ws' = "closed"
    /\ client_callbacks' = Append(client_callbacks, "on_close")
    /\ UNCHANGED <<mergeVars, recVars, synVars, replayVars, callVars,
                   poolVars, kind, task_id, headers, current_state,
                   call_outcome, handler_outcome, uuids, chatVars>>

ClientSpec ==
    /\ SynInit
    /\ [][\/ \E k \in Kinds : New(k)
          \/ ClientStart \/ ClientConnect \/ ClientDirective \/ ClientStop
          \/ ClientSendAudio
          \/ ClientClose \/ ClientMessage \/ ServerClose]_vars

----------------------------------------------------------------------------
(* TranslationRecognizerChat over several sessions on one object: the      *)
(* calls of the application, the parts the receive worker handles, the     *)
(* input generator and the silence timers, one step for each call, part    *)
(* and timer function.                                                     *)

\* A threading.Timer: the session whose start() or input generator armed
\* it, and "armed" while is_alive() holds, then "cancelled" or "fired".
SilenceTimer(session, state) == [session |-> session, state |-> state]

\* `self._silence_timer is not None and self._silence_timer.is_alive()`
TimerAlive == chat_silence # 0 /\ chat_timers[chat_silence].state = "armed"

\* `self._silence_timer.cancel()`
CancelSilence ==
    IF TimerAlive
    THEN [chat_timers EXCEPT ![chat_silence].state = "cancelled"]
    ELSE chat_timers

\* `self._worker.join()` returns when the worker has ended.
Joined == IF chat_worker = "alive" THEN "dead" ELSE chat_worker

\* One call, part or timer function more.
Did(op, session) ==
    /\ chat_ops < MaxChatOps
    /\ chat_ops' = chat_ops + 1
    /\ chat_last' = [op |-> op, session |-> session]

\* start() while the object is running.
ChatStartRefused ==
    /\ chat_running
    /\ Did("start", chat_session)
    /\ chat_result' = "InvalidParameter"
    /\ UNCHANGED <<mergeVars, recVars, synVars, replayVars, callVars,
                   poolVars, clientVars, chat_running, is_sentence_end,
                   chat_worker, chat_session, chat_timers, chat_silence,
                   chat_data, refusal>>

\* start(): a new worker, and if it is alive the session runs with a new
\* silence timer; the reference to the timer of the session before is
\* overwritten.
ChatStart ==
    /\ ~chat_running
    /\ Did("start", chat_session + 1)
    /\ chat_worker' = "alive"
    /\ chat_running' = TRUE
    /\ chat_session' = chat_session + 1
    /\ chat_timers' = Append(chat_timers, SilenceTimer(chat_session + 1, "armed"))
    /\ chat_silence' = Len(chat_timers) + 1
    /\ chat_result' = "None"
    /\ refusal' = IF refusal = "stopped" THEN "restarted" ELSE refusal
    /\ UNCHANGED <<mergeVars, recVars, synVars, replayVars, callVars,
                   poolVars, clientVars, is_sentence_end, chat_data>>

\* start() whose worker has handled a part whose status is not OK and has
\* ended before the is_alive() test.
ChatStartFailed ==
    /\ ~chat_running
    /\ Did("start", chat_session)
    /\ chat_worker' = "dead"
    /\ chat_data' = 0
    /\ chat_result' = "InvalidTask"
    /\ UNCHANGED <<mergeVars, recVars, synVars, replayVars, callVars,
                   poolVars, clientVars, chat_running, is_sentence_end,
                   chat_session, chat_timers, chat_silence, refusal>>

\* send_audio_frame(buffer)
SendAudioFrame ==
    IF is_sentence_end THEN "False"
    ELSE IF ~chat_running THEN "InvalidParameter"
    ELSE "True"

\* A call of send_audio_frame.
ChatSend ==
    /\ Did("send_audio_frame", chat_session)
    /\ chat_result' = SendAudioFrame
    /\ chat_data' = IF SendAudioFrame = "True" THEN chat_data + 1 ELSE chat_data
    /\ refusal' = IF SendAudioFrame = "False" /\ refusal = "none" THEN "refused"
                  ELSE refusal
    /\ UNCHANGED <<mergeVars, recVars, synVars, replayVars, callVars,
                   poolVars, clientVars, chat_running, is_sentence_end,
                   chat_worker, chat_session, chat_timers, chat_silence>>

\* stop()
ChatStop ==
    /\ Did("stop", chat_session)
    /\ IF ~chat_running
       THEN /\ chat_result' = "InvalidParameter"
            /\ UNCHANGED <<chat_running, chat_worker, chat_data, chat_timers,
                           chat_silence, refusal>>
       ELSE /\ chat_result' = "None"
            /\ chat_running' = FALSE
            /\ chat_worker' = Joined
            /\ chat_data' = 0
            /\ chat_timers' = CancelSilence
            /\ chat_silence' = IF TimerAlive THEN 0 ELSE chat_silence
            /\ refusal' = IF refusal = "refused" THEN "stopped" ELSE refusal
    /\ UNCHANGED <<mergeVars, recVars, synVars, replayVars, callVars,
                   poolVars, clientVars, is_sentence_end, chat_session>>

\* The worker handles a part whose status is OK and whose output is not
\* empty; its transcription or translation may carry is_sentence_end.
ChatEvent ==
    /\ chat_worker = "alive"
    /\ Did("on_event", chat_session)
    /\ \E sentence_end \in BOOLEAN :
         /\ is_sentence_end' = (is_sentence_end \/ sentence_end)
         /\ refusal' = IF sentence_end /\ refusal = "restarted" THEN "none"
                       ELSE refusal
    /\ UNCHANGED <<mergeVars, recVars, synVars, replayVars, callVars,
                   poolVars, clientVars, chat_running, chat_worker,
                   chat_session, chat_timers, chat_silence, chat_data,
                   chat_result>>

\* The worker handles a part whose status is not OK and ends.
ChatServerError ==
    /\ chat_worker = "alive"
    /\ Did("on_error", chat_session)
    /\ chat_running' = FALSE
    /\ chat_data' = 0
    /\ chat_worker' = "dead"
    /\ UNCHANGED <<mergeVars, recVars, synVars, replayVars, callVars,
                   poolVars, clientVars, is_sentence_end, chat_session,
                   chat_timers, chat_silence, chat_result, refusal>>

\* _input_stream_cycle finds audio in the queue: the silence timer is
\* replaced if it is alive, and the frames are yielded.
ChatInputStream ==
    /\ chat_worker = "alive"
    /\ chat_running
    /\ chat_data > 0
    /\ Did("input", chat_session)
    /\ chat_data' = 0
    /\ IF TimerAlive
       THEN /\ chat_timers' = Append(CancelSilence,
                                     SilenceTimer(chat_session, "armed"))
            /\ chat_silence' = Len(chat_timers) + 1
       ELSE UNCHANGED <<chat_timers, chat_silence>>
    /\ UNCHANGED <<mergeVars, recVars, synVars, replayVars, callVars,
                   poolVars, clientVars, chat_running, is_sentence_end,
                   chat_worker, chat_session, chat_result, refusal>>

\* _silence_stop_timer run by timer t, which is alive until its function
\* returns.
ChatTimerFires(t) ==
    /\ chat_timers[t].state = "armed"
    /\ Did("timer", chat_timers[t].session)
    /\ chat_running' = FALSE
    /\ chat_timers' = [CancelSilence EXCEPT ![t].state = "fired"]
    /\ chat_silence' = 0
    /\ chat_worker' = Joined
    /\ chat_data' = 0
    /\ UNCHANGED <<mergeVars, recVars, synVars, replayVars, callVars,
                   poolVars, clientVars, is_sentence_end, chat_session,
                   chat_result, refusal>>

ChatNext ==
    \/ ChatStartRefused \/ ChatStart \/ ChatStartFailed \/ ChatSend
    \/ ChatStop \/ ChatEvent \/ ChatServerError \/ ChatInputStream
    \/ \E t \in 1..Len(chat_timers) : ChatTimerFires(t)

ChatSpec == SynInit /\ [][ChatNext]_vars

----------------------------------------------------------------------------
(* Streams of the output.text shape: no fragment has choices, n is any     *)
(* value the caller may pass.                                              *)

NextText == ReceiveText \/ ReceiveEmpty

TextSpec == Init /\ [][NextText]_vars

----------------------------------------------------------------------------
(* Properties *)

Called == result # "None"
Choices == 0..(n - 1)
\* The single choice of the last fragment and of the response yielded for it.
InChoice == fragment.choices[1]
OutChoice == yielded[1].choices[1]
OneChoice == Len(fragment.choices) = 1
AllReported(s) == \A i \in Choices : s[i].finish # ""
OnlyStop(s) == \A i \in Choices : ~s[i].nonstop
\* The last call is the one in which the n-th choice reported finished.
LastReports == AllReported(sent) /\ ~AllReported(prev_sent)
\* Terminal emissions of choice i before the last call.
EmittedBefore(i) == emitted[i] - TerminalCount(yielded, i)
NoMarker(responses) ==
    \A r \in 1..Len(responses) : \A c \in 1..Len(responses[r].choices) :
        ~IsFinishing(responses[r].choices[c])

\* C1: with n = 1, after a fragment whose one choice (index 0) carries a
\* string content delta, the call returns True and the visible message.content
\* is the concatenation of all content deltas the wire carried so far.
C1_CumulativeContent ==
    (Called /\ n = 1 /\ OneChoice /\ InChoice.message.present
        /\ "content" \in InChoice.message.keys)
    => /\ result = "True"
       /\ Len(yielded) = 1
       /\ Len(yielded[1].choices) = 1
       /\ OutChoice.message.content = StrContent(sent[0].content)

\* C1 witness: three deltas "a", "b", "" have been merged and the fragment
\* of the empty delta shows "ab".
C1_Witness ==
    /\ Called /\ n = 1 /\ count = 3 /\ OneChoice
    /\ InChoice.message.content = StrContent("")
    /\ "tool_calls" \notin InChoice.message.keys
    /\ prev_sent[0].content = "ab"
    /\ Len(yielded) = 1 /\ OutChoice.message.content = StrContent("ab")

\* C2: with n > 1 and only 'stop' finishes on the wire, as long as some
\* choice has not reported finished no yielded fragment carries a completion
\* marker: the fragment of a 'stop' finish is yielded with finish_reason
\* 'null'.
C2_StopHeldBack ==
    (Called /\ n > 1 /\ OnlyStop(sent) /\ ~AllReported(sent))
    => /\ NoMarker(yielded)
       /\ (OneChoice /\ InChoice.finish_reason = "stop")
            => /\ result = "True"
               /\ Len(yielded) = 1
               /\ Len(yielded[1].choices) = 1
               /\ OutChoice.index = InChoice.index
               /\ OutChoice.finish_reason = "null"

\* C2 witness: of two choices one has reported 'stop' in the last fragment,
\* the other has not finished, and the fragment was yielded with 'null'.
C2_Witness ==
    /\ Called /\ n = 2 /\ OnlyStop(sent) /\ ~AllReported(sent)
    /\ OneChoice /\ InChoice.finish_reason = "stop"
    /\ result = "True" /\ OutChoice.finish_reason = "null"

\* What the merged final fragment holds for position p of its choices list.
FinalHolds(p) ==
    LET c == yielded[1].choices[p]
    IN  /\ c.index = p - 1
        /\ c.finish_reason = "stop"
        /\ c.message.content = StrContent(sent[p - 1].content)
        /\ ("content" \in c.message.keys) <=> (sent[p - 1].content # "")

\* C3: with n > 1 and only 'stop' finishes, no choice is emitted in terminal
\* form before the n-th choice has reported, every choice has been emitted
\* exactly once afterwards, and the call in which the n-th choice reports
\* yields one fragment whose choices are the n choices in ascending index
\* order, each with its accumulated content and finish_reason 'stop'.
C3_OneMergedFinal ==
    (Called /\ n > 1 /\ OnlyStop(sent))
    => /\ ~AllReported(sent) => \A i \in Choices : emitted[i] = 0
       /\ AllReported(sent) => \A i \in Choices : emitted[i] = 1
       /\ (AllReported(sent) /\ ~LastReports) => NoMarker(yielded)
       /\ LastReports
            => /\ result = "True"
               /\ Len(yielded) = 1
               /\ Len(yielded[1].choices) = n
               /\ \A p \in 1..n : FinalHolds(p)

\* C3 witness: two choices with different content, both finished with
\* 'stop'; the last call yielded the merged final fragment.
C3_Witness ==
    /\ Called /\ n = 2 /\ OnlyStop(sent) /\ LastReports
    /\ sent[0].content # "" \/ sent[1].content # ""
    /\ Len(yielded) = 1 /\ Len(yielded[1].choices) = 2
    /\ yielded[1].choices[1].finish_reason = "stop"
    /\ yielded[1].choices[2].finish_reason = "stop"

\* A response whose choices are exactly [choice k] in terminal form.
OwnResponse(r, k) ==
    /\ Len(yielded[r].choices) = 1
    /\ yielded[r].choices[1].index = k
    /\ yielded[r].choices[1].finish_reason = InChoice.finish_reason

\* C4: with n > 1, a fragment that reports a finish_reason other than 'stop'
\* for a choice not emitted before makes the call return a list holding a
\* response whose choices are exactly that choice.
C4_FanOutAtOnce ==
    (Called /\ n > 1 /\ OneChoice /\ IsFinishing(InChoice)
        /\ InChoice.finish_reason # "stop"
        /\ EmittedBefore(InChoice.index) = 0)
    => /\ result = "List"
       /\ \E r \in 1..Len(yielded) : OwnResponse(r, InChoice.index)

\* C5: with n > 1, a choice emitted as its own response for a non-stop
\* finish_reason is never emitted in terminal form a second time.
C5_NeverReEmitted ==
    (Called /\ n > 1) => \A i \in fanned : emitted[i] <= 1

\* C6: a fragment whose choices list is empty makes the call return False
\* and leaves accumulated_data as it was.
C6_EmptyChoicesDropped ==
    (Called /\ fragment.choices = <<>>)
    => /\ result = "False"
       /\ accumulated_data = prev_data

\* Every one of the n choices had been emitted in terminal form before the
\* last call.
AllEmittedBefore == \A i \in Choices : EmittedBefore(i) >= 1

\* C7: with n > 1, once every choice has been emitted in terminal form each
\* later call returns False, and no call returns False at the all-sent check
\* before that.
C7_SuppressedOnlyAfterAll ==
    (Called /\ n > 1)
    => /\ AllEmittedBefore => (result = "False" /\ yielded = <<>>)
       /\ filtered_all_sent => AllEmittedBefore

\* The choice index of the last fragment, and the other indices that had an
\* accumulator entry before the call.
Others == {j \in Keys(prev_data) : j # InChoice.index}
SameButSent(j) ==
    /\ j \in Keys(accumulated_data)
    /\ [accumulated_data.entries[j] EXCEPT !.all_choices_sent = FALSE]
        = [prev_data.entries[j] EXCEPT !.all_choices_sent = FALSE]
SentFlagSet(j) ==
    /\ accumulated_data.entries[j].all_choices_sent
    /\ ~prev_data.entries[j].all_choices_sent

\* C8 as stated: a fragment whose choice carries index k leaves the entry of
\* every other index unchanged in every field.
C8_OthersUntouched ==
    (Called /\ OneChoice)
    => \A j \in Others :
          /\ j \in Keys(accumulated_data)
          /\ accumulated_data.entries[j] = prev_data.entries[j]

\* C8 amended: a fragment whose choice carries index k leaves every field of
\* the entry of every other index unchanged except all_choices_sent, which
\* changes only from False to True and only in the call that yields the
\* merged final fragment of a 'stop' finish.
C8_OthersUntouchedButSent ==
    (Called /\ OneChoice)
    => \A j \in Others :
          /\ SameButSent(j)
          /\ accumulated_data.entries[j].all_choices_sent
                # prev_data.entries[j].all_choices_sent
             => /\ SentFlagSet(j)
                /\ InChoice.finish_reason = "stop"
                /\ result = "True"
                /\ Len(yielded[1].choices) = Cardinality(Keys(accumulated_data))
                /\ \E p \in 1..Len(yielded[1].choices) :
                      /\ yielded[1].choices[p].index = j
                      /\ IsFinishing(yielded[1].choices[p])

\* C8 witness: the merged final fragment of a 'stop' finish set
\* all_choices_sent on a sibling entry that holds content, and nothing else
\* of that entry changed.
C8_Witness ==
    /\ Called /\ OneChoice
    /\ \E j \in Others :
          /\ SameButSent(j) /\ SentFlagSet(j)
          /\ accumulated_data.entries[j].content # StrContent("")

RECURSIVE SumSent(_)
SumSent(S) ==
    IF S = {} THEN 0
    ELSE LET i == CHOOSE x \in S : TRUE
         IN  sent[i].output_tokens + SumSent(S \ {i})

UsageReported == \E i \in Choices : sent[i].output_tokens > 0

\* C9: in the merged final fragment of an n > 1 'stop' stream that reported
\* usage, output_tokens is the sum over the choices of the output_tokens
\* reported last for each, input_tokens is the shared input_tokens and
\* total_tokens is their sum.
C9_AggregatedUsage ==
    (Called /\ n > 1 /\ OnlyStop(sent) /\ LastReports /\ UsageReported)
    => /\ Len(yielded) = 1
       /\ yielded[1].usage.present
       /\ yielded[1].usage.output_tokens = SumSent(Choices)
       /\ yielded[1].usage.input_tokens = SharedInputTokens
       /\ yielded[1].usage.total_tokens = SharedInputTokens + SumSent(Choices)

\* C9 witness: one choice reported 1 output token, the other the largest
\* count, and the merged final fragment carries their sum.
C9_Witness ==
    /\ Called /\ n = 2 /\ OnlyStop(sent) /\ LastReports
    /\ {sent[0].output_tokens, sent[1].output_tokens} = {1, MaxOutputTokens}
    /\ Len(yielded) = 1
    /\ yielded[1].usage.output_tokens = 1 + MaxOutputTokens

CallHolds(p) ==
    LET v == OutChoice.message.tool_calls[p]
        w == sent[0].calls[p]
    IN  /\ v.index = w.index
        /\ (IF "name" \in v.fkeys THEN v.name ELSE "") = w.name
        /\ (IF "arguments" \in v.fkeys THEN v.arguments ELSE "") = w.arguments

\* C10: with n = 1, once tool-call deltas have been carried, the visible
\* tool_calls of a fragment is the accumulated list: one entry per tool-call
\* index in order of first appearance, its name and arguments the in-order
\* concatenation of the deltas with that index.
C10_ToolCallsAccumulate ==
    (Called /\ n = 1 /\ OneChoice /\ sent[0].calls # <<>>)
    => /\ result = "True"
       /\ Len(yielded) = 1
       /\ "tool_calls" \in OutChoice.message.keys
       /\ OutChoice.message.tool_calls = accumulated_data.entries[0].tool_calls
       /\ Len(OutChoice.message.tool_calls) = Len(sent[0].calls)
       /\ \A p \in 1..Len(sent[0].calls) : CallHolds(p)

\* C10 witness: the deltas name 'get_', arguments '{' and '}' of tool-call
\* index 0 have been merged into one entry, beside an entry of index 1.
C10_Witness ==
    /\ Called /\ n = 1 /\ OneChoice /\ Len(yielded) = 1
    /\ Len(OutChoice.message.tool_calls) = 2
    /\ OutChoice.message.tool_calls[1].name = "get_"
    /\ OutChoice.message.tool_calls[1].arguments = "{}"
    /\ OutChoice.message.tool_calls[2].index = 1

----------------------------------------------------------------------------
(* Properties of the translation recognizer *)

\* How many times callback `name` was invoked in a sequence of callbacks.
Count(q, name) == Cardinality({i \in 1..Len(q) : q[i] = name})

\* C11: once stop() has been called on a session and the generator of that
\* session has ended with the finish command sent, every frame that
\* send_audio_frame accepted in the session has been yielded by the
\* session's generator: no accepted frame is dropped.
C11_AcceptedFramesFlushed ==
    \A s \in stopped :
        finish_sent[s] => Range(accepted[s]) \subseteq Range(wire[s])

\* C12: in every session on_error is invoked at most once, on_close at most
\* once, and no on_close comes before an on_error.
C12_ErrorThenCloseOnce ==
    \A s \in Sessions :
        /\ Count(callbacks[s], "on_error") <= 1
        /\ Count(callbacks[s], "on_close") <= 1
        /\ \A i, j \in 1..Len(callbacks[s]) :
               callbacks[s][i] = "on_error" /\ callbacks[s][j] = "on_close"
                   => i < j

\* A step in which the caller, right after a stop() that returned, calls
\* stop() again.
SecondStop == cpc = "stop_returned" /\ cpc' \notin {"idle", "stop_returned"}

\* C13 as stated: a stop() called right after a stop() that returned does
\* not raise, and on_close has then been invoked exactly once in the session.
C13_SecondStopSilent ==
    [][SecondStop => /\ cpc' # "stop_raised"
                     /\ Count(callbacks'[worker], "on_close") = 1]_vars

\* C13: a stop() called right after a stop() that returned raises
\* InvalidParameter at its check of _running and does nothing else: it
\* invokes no callback and leaves flag, queue, worker and timer as they are.
C13_SecondStopRaises ==
    [][SecondStop => /\ cpc' = "stop_raised"
                     /\ UNCHANGED <<callbacks, running, stream_data, worker,
                                    silence_timer, stopped>>]_vars

C13_Witness ==
    /\ cpc = "stop_raised"
    /\ worker \in stopped
    /\ Count(callbacks[worker], "on_close") >= 1

\* Thread t of a fired timer has executed `self._running = False`.
TimerRan(t) == tstate[t] \notin {"unused", "running"}

\* C14: once the silence timer armed in a session has fired and its thread
\* has cleared _running, the recognizer is not running for as long as no
\* later start() has begun a new session; and when _silence_stop_timer has
\* returned, the send generator of that session has terminated.
C14_WatchdogTerminal ==
    \A t \in Timers :
        /\ TimerRan(t) /\ worker = tsess[t] => ~running
        /\ tstate[t] = "dead" /\ worker = tsess[t] => GenEnded(tsess[t])

C14_Witness ==
    \E t \in Timers :
        /\ tstate[t] = "dead"
        /\ worker = tsess[t]
        /\ gpc[tsess[t]] = "done"
        /\ ~running

\* C15: when _silence_stop_timer has closed a session and returned, on_error
\* or on_close has been invoked for that session.
C15_WatchdogTellsCaller ==
    \A t \in Timers :
        tstate[t] = "dead" =>
            Count(callbacks[tsess[t]], "on_error")
                + Count(callbacks[tsess[t]], "on_close") >= 1

\* C16: the frames a generator has yielded are accepted frames in the order
\* of their acceptance (frames are numbered as send_audio_frame accepts
\* them), and no frame is yielded twice, by one generator or by two.
C16_YieldedInOrder ==
    /\ \A s \in Sessions : \A i, j \in 1..Len(wire[s]) :
           i < j => wire[s][i] < wire[s][j]
    /\ \A s, r \in Sessions :
           s # r => Range(wire[s]) \cap Range(wire[r]) = {}
    /\ \A s \in Sessions :
           Range(wire[s]) \subseteq UNION {Range(accepted[r]) : r \in Sessions}

C16_Witness == \E s \in Sessions : wire[s] = accepted[s] /\ Len(wire[s]) = 2

\* C17: a send_audio_frame() called while _running is False raises
\* InvalidParameter and puts nothing into the queue.
C17_SendWhenNotRunning ==
    [][cpc = "idle" /\ cpc' \in {"send_put", "send_raised"} /\ ~running
           => cpc' = "send_raised" /\ UNCHANGED <<stream_data, accepted>>]_vars

C17_Witness ==
    /\ cpc = "send_raised"
    /\ worker # 0
    /\ \E t \in Timers : TimerRan(t)

\* C18: a start() called while _running is True raises InvalidParameter,
\* starts no worker thread and no timer, and leaves the flag, the queue, the
\* worker and the timer of the running session as they are.
C18_StartWhenRunning ==
    [][cpc = "idle" /\ cpc' \in {"start_worker", "start_raised"} /\ running
           => /\ cpc' = "start_raised"
              /\ UNCHANGED <<running, stream_data, worker, silence_timer,
                             leaked, wstate, gpc, tstate>>]_vars

C18_Witness ==
    /\ cpc = "start_raised"
    /\ running
    /\ WorkerAlive(worker)
    /\ silence_timer = ArmedTimer(worker)


\* C19: the synthesizer's task is in the started state (_is_started true,
\* on_open invoked) only after the server's task-started event has been
\* received; a task-failed event or a streaming_cancel never leads there.
C19_StartedOnlyAfterAck ==
    is_started \/ "on_open" \in Range(synth_callbacks) => task_started

\* Positions of the envelopes with the given action.
Sent(action) == {i \in 1..Len(envelopes) : envelopes[i] = action}

\* C20: the envelopes sent for the task follow start, continue*, finish: no
\* continue or finish comes before the start, there is at most one finish,
\* and nothing is sent after the finish.
C20_EnvelopeOrder ==
    /\ envelopes # <<>> => envelopes[1] = "start"
    /\ Cardinality(Sent("finish")) <= 1
    /\ Sent("finish") \subseteq {Len(envelopes)}

Visible == UNION {Range(yielded[r].choices) : r \in 1..Len(yielded)}

\* C28: a choice whose content is a list of parts shows, at every position
\* the stream has carried so far, the concatenation of the text deltas of
\* that position, also when the last fragment had fewer parts.
C28_PartsAccumulated ==
    \A c \in Visible :
        c.message.content.kind = "list" /\ sent[c.index].content = ""
            => \A p \in 1..Len(part_deltas[c.index]) :
                   /\ p <= Len(c.message.content.parts)
                   /\ c.message.content.parts[p] = part_deltas[c.index][p]

\* C21: when the server has answered the task of a call() made without a
\* callback with task-failed, that call() does not return normally.
C21_FailedCallRaises == server = "failed" => call_pc # "returned"

\* Synthesizers of the objects the maintenance thread has selected in this
\* round and not refreshed yet.
Refreshing ==
    {pool[i].synthesizer : i \in {j \in 1..Len(pool) : pool[j].id \in Range(selected)}}

\* C22: a synthesizer the maintenance thread has selected and not finished
\* refreshing is never the one borrow_synthesizer hands out.
C22_BorrowSkipsRefreshing ==
    [][\A s \in held' \ held : s \notin Refreshing]_vars

\* A synthesizer was taken from the pool while objects were being refreshed.
C22_Witness == lent_during # {}

\* The callbacks a step invokes.
Invoked ==
    SubSeq(client_callbacks', Len(client_callbacks) + 1, Len(client_callbacks'))

\* The step is the handling of a text frame with this event.
Handled(evs) ==
    /\ client_ops' = client_ops + 1
    /\ last'.op = "message"
    /\ last'.event \in evs

\* The step is a call of this operation.
CallOf(ops) == client_ops' = client_ops + 1 /\ last'.op \in ops

\* C23: a DialogStateChanged event whose state is not one of 'Idle',
\* 'Listening', 'Thinking', 'Responding' makes change_state raise ValueError,
\* leaves current_state unchanged and invokes no on_state_changed.
C23_InvalidStateRejected ==
    [][Handled({"DialogStateChanged"}) /\ last'.state \notin DialogStates
         => /\ handler_outcome' = "ValueError"
            /\ current_state' = current_state
            /\ "on_state_changed" \notin Range(Invoked)]_vars

\* An invalid state name arrived while the dialog was in a state other than
\* the initial one.
C23_Witness ==
    /\ last.op = "message" /\ last.event = "DialogStateChanged"
    /\ last.state \notin DialogStates
    /\ current_state # "Idle"
    /\ "on_state_changed" \in Range(client_callbacks)

\* C24: every header one _Request has built carries the task_id of the
\* first one, which is the task_id the _Request holds from then on.
C24_TaskIdStable ==
    \A i \in 1..Len(headers) :
        /\ headers[i].task_id = headers[1].task_id
        /\ headers[i].task_id = task_id
        /\ task_id # 0

\* A dialog has generated its start request, a directive and its stop
\* request.
C24_Witness ==
    /\ kind = "dialog"
    /\ {headers[i].action : i \in 1..Len(headers)}
         = {"run-task", "continue-task", "finish-task"}

C27_FailureClosesSession ==
    [][Handled({"task-failed", "status-400"})
         => "on_error" \in Range(Invoked) /\ "on_close" \in Range(Invoked)]_vars

\* C29: a text frame that is not JSON invokes the error callback and the
\* handler returns without raising.
C29_BadJsonReported ==
    [][Handled({"not-json"})
         => "on_error" \in Range(Invoked) /\ handler_outcome' = "returned"]_vars

\* C30: close() or stop() on a session that was never connected or is
\* closed returns or raises an error of the SDK, never AttributeError.
C30_CloseIsSafe ==
    [][CallOf({"close", "stop"}) /\ client_ws # "open"
         => call_outcome' # "AttributeError"]_vars

\* C31: a start() of MultiModalDialog or TingWuRealtime whose connection is
\* not established within the wait ends with a connection-timeout error, the
\* start envelope unsent.
C31_StartTimesOut ==
    [][CallOf({"start"}) /\ call_outcome' # "InvalidParameter"
         /\ client_ws' = "closed"
         => call_outcome' = "TimeoutError"]_vars

\* C32: send_audio_frame of a TingWuRealtime session that was open and is
\* closed, by the server's speech-end, by close() or by the loss of the
\* connection, raises InvalidParameter.
C32_SendAfterEndRaises ==
    [][CallOf({"send_audio_frame"}) /\ Running /\ client_ws = "closed"
         => call_outcome' = "InvalidParameter"]_vars

C37_CancelStopsTask ==
    \A c \in Callers :
        c \in cancelled => spc[c] \notin {"submit_send", "complete_send"}

\* C39: in every session in which start() has invoked on_open, on_open is
\* the first callback, and no on_event, on_complete or on_error follows an
\* on_close.
C39_CallbackOrder ==
    \A s \in Sessions :
        /\ "on_open" \in Range(callbacks[s]) => callbacks[s][1] = "on_open"
        /\ \A i, j \in 1..Len(callbacks[s]) :
               i < j /\ callbacks[s][i] = "on_close"
                   => callbacks[s][j] \notin {"on_event", "on_complete", "on_error"}

\* The step is a call, part or timer function of this name.
ChatOp(op) == chat_ops' # chat_ops /\ chat_last'.op = op

\* C35: the function of a silence timer that was armed in an earlier
\* session leaves a later session that is running as it is: _running stays
\* True and the later session's timer stays armed.
C35_OldTimerHarmless ==
    [][ChatOp("timer") /\ chat_last'.session < chat_session /\ chat_running
           => /\ chat_running'
              /\ \A t \in 1..Len(chat_timers) :
                     chat_timers[t].session = chat_session
                         => chat_timers'[t].state = chat_timers[t].state]_vars

\* C38: after send_audio_frame has returned False, stop() and then start(),
\* a send_audio_frame in the running new session, in which no sentence end
\* has been received, returns True.
C38_AcceptsAfterRestart ==
    [][ChatOp("send_audio_frame") /\ refusal = "restarted" /\ chat_running
           => chat_result' = "True"]_vars

\* The fragment merged last has no choices and a scalar output.text.
TextFragment == count > 0 /\ fragment.choices = <<>> /\ fragment.has_text

\* C34: a fragment of the output.text shape is yielded once (the call
\* returns True, never False or a list), entry 0 of the accumulator holds
\* the concatenation of the texts received so far, and the fragment's
\* output.text is overwritten with it.
C34_TextAccumulates ==
    TextFragment =>
        /\ result = "True"
        /\ Len(yielded) = 1
        /\ yielded[1].text = sent[0].content
        /\ 0 \in Keys(accumulated_data)
        /\ accumulated_data.entries[0].content = StrContent(sent[0].content)
        /\ Keys(accumulated_data) = Keys(prev_data) \cup {0}

\* The second of two text fragments is yielded with the text of both.
C34_Witness ==
    /\ TextFragment
    /\ count = 2
    /\ prev_sent[0].content = "a"
    /\ fragment.text = "b"
    /\ yielded[1].text = "ab"
    /\ accumulated_data.entries[0].content.text = "ab"

\* C36: the tool_calls of every choice of a response that was yielded as
\* the merged fragment itself (n = 1, result True) are, for a caller who
\* has kept the response, what they were when it was yielded.
C36_YieldedFrozen ==
    n = 1 =>
        \A i \in 1..Len(tape) :
            tape[i].outcome.result = "True" =>
                \A r \in 1..Len(tape[i].outcome.yielded) :
                    LET choices == tape[i].outcome.yielded[r].choices
                    IN  \A k \in 1..Len(choices) :
                            HeldCalls(choices[k]) = choices[k].message.tool_calls

\* C40: with n = 1 the merge call on a fragment whose choices list is not
\* empty returns True, neither False nor a list, and the fragment is
\* yielded exactly once.
C40_SingleAlwaysYielded ==
    n = 1 /\ count > 0 /\ fragment.choices # <<>> =>
        /\ result = "True"
        /\ ~filtered_all_sent
        /\ Len(yielded) = 1

\* A fragment with a finish_reason other than 'stop' that follows a fragment
\* with finish_reason 'stop' is yielded.
C40_Witness ==
    /\ n = 1
    /\ count >= 2
    /\ prev_sent[0].finish = "stop"
    /\ fragment.choices # <<>>
    /\ fragment.choices[1].finish_reason = "tool_calls"
    /\ result = "True"
    /\ Len(yielded) = 1

====
